---- MODULE Spec2Model ----
(***************************************************************************)
(* Document status state machine of the dochub processing pipeline:        *)
(* the post_save upload signal, the Celery tasks process_document_task     *)
(* (with its retries), mock_process_document_task,                         *)
(* cleanup_processing_documents and reprocess_failed_document, and the     *)
(* hard-failure policy of DocumentService.process_document.                *)
(*                                                                         *)
(* Every database transaction of the code is one step; the code between    *)
(* two transactions of one task runs in its own step, so the steps of      *)
(* different tasks interleave freely.  Time is kept as the distance from   *)
(* "now" to a timestamp, counted in ticks of TickMinutes and saturated     *)
(* once it exceeds the sweep window (the only comparison the code makes).  *)
(***************************************************************************)
EXTENDS Integers, FiniteSets, Bags, Sequences, TLC

\* ---- bounds of the model ----
MaxTasks == 2
MaxReprocess == 2
TickMinutes == 15

\* ---- program constants ----
max_retries == 3
StaleMinutes == 30

\* Document ids are opaque; every operation is keyed by one id and the
\* sweep treats each row of its queryset on its own.  (The properties
\* below also hold with two rows, at about 1.4 million states.)
Docs == {"doc-1"}

NULL == "<null>"

STATUS_CHOICES == {"processing", "ready", "error"}

\* the value of status for a row that does not exist (yet)
NoRow == "none"

unsupported_types == {"image/jpeg", "image/png", "image/gif", "image/webp"}

\* file types an upload is tried with: one unsupported, one processable
FileTypes == {"image/png", "text/plain"}

NoTextMessage == "No text extracted from document"

NoChunksMessage == "Failed to split text into chunks"

TimeoutMessage == "Processing timed out. The document was stuck in processing state for too long."

InitErrorMessage == "Error initializing document: signal handler failed"

\* str() of celery's Retry exception, as formatted by the outer handler
CriticalMessage(exc) == "Critical task error: Retry in 30s: ValueError('" \o exc \o "')"

VARIABLES
    status,           \* Document.status per row, NoRow before the upload
    error_message,    \* Document.error_message per row
    file_type,        \* Document.file_type per row
    sinceUpdate,      \* minutes from Document.updated_at to now (saturated)
    sinceProcessing,  \* minutes the row has continuously been 'processing'
    tasks,            \* bag of Celery task messages and executions
    reprocessing,     \* bag of reprocess_failed_document calls past get()
    cleanup_pc,       \* "idle", or "loop" while a cleanup sweep iterates
    stuck,            \* rows left to save in the running cleanup sweep
    USE_MOCK_PROCESSOR \* settings.DEBUG and settings.USE_MOCK_PROCESSOR

\* One attempt of process_document_task followed stage by stage (the
\* stage-level specification PipelineSpec; idle in Spec and FairSpec).
VARIABLES
    stage,            \* position of the attempt in the task / in process_document
    env,              \* the attempt's surroundings: file extension, settings, request.retries
    row,              \* the attempt's Document row: status and error_message
    invoked,          \* the pipeline components called so far, in call order
    doc_text,         \* text returned by extractor.extract
    doc_chunks,       \* list returned by splitter.split
    embeddings,       \* list handed to indexer.index
    index_ids,        \* list returned by indexer.index
    llm_replies,      \* the LLM reply met for each chunk of the graph stage
    graph_result,     \* dict returned by graph_generator.process_document
    graph_store,      \* entities and relationships written to the graph store
    raised,           \* the exception process_document raised
    retry_sent        \* self.retry() sent a retry message

pipelineVars == <<stage, env, row, invoked, doc_text, doc_chunks, embeddings,
                  index_ids, llm_replies, graph_result, graph_store, raised, retry_sent>>

\* One call of DoclingExtractor.extract followed strategy by strategy (the
\* specification ExtractSpec).
VARIABLES
    x_file,           \* the file: its extension, and whether it exists
    x_log,            \* the strategies tried so far, each with what it gave
    x_pc,             \* "run", "fallback", "returned", "raised", or "off"
    x_result          \* the text extract returned

extractVars == <<x_file, x_log, x_pc, x_result>>

\* One call of LangchainSplitter.split (the specification SplitSpec).
VARIABLES
    s_text,           \* the text: leading blanks, body, trailing blanks
    s_args,           \* the arguments chunk_size and chunk_overlap
    s_pc,             \* "call", "primary", "fallback", "returned", "raised", or "off"
    s_params,         \* chunk_size and chunk_overlap in use
    s_result          \* the list split returned

splitVars == <<s_text, s_args, s_pc, s_params, s_result>>

\* One call of OpenAIEmbeddingGenerator.generate followed chunk by chunk
\* (the specification EmbedSpec).
VARIABLES
    g_chunks,         \* the list of chunks passed to generate
    g_env,            \* settings.USE_MOCK_EMBEDDINGS, and whether OPENAI_API_KEY is set
    g_pc,             \* "call", "loop", "returned", "raised", or "off"
    g_calls,          \* whether each openai.embeddings.create call so far worked
    g_all,            \* all_embeddings
    g_result          \* the list generate returned

embedVars == <<g_chunks, g_env, g_pc, g_calls, g_all, g_result>>

\* One call of ChromaIndexer.index (the specification IndexSpec).
VARIABLES
    i_args,           \* the arguments: chunks, embeddings, metadata
    i_store,          \* how the vector store behaves during the call
    i_chunks,         \* the local chunks, truncated or not
    i_embeddings,     \* the local embeddings, truncated or not
    i_pc,             \* "call", "try", "returned", "raised", or "off"
    i_added,          \* the entries collection.add was called with, in order
    i_result          \* the list index returned

indexVars == <<i_args, i_store, i_chunks, i_embeddings, i_pc, i_added, i_result>>

\* One use of SchemaManager.normalize_entity_type or
\* normalize_relationship_type, and a second use on its result (the
\* specification SchemaSpec).
VARIABLES
    n_kind,           \* "entity" or "relationship": the function used
    n_in,             \* the type string passed, as its characters
    n_pc,             \* "call", "once", "twice", or "off"
    n_once,           \* normalize(t)
    n_twice           \* normalize(normalize(t))

schemaVars == <<n_kind, n_in, n_pc, n_once, n_twice>>

\* One call of GraphGenerator._filter_doc_metadata_entities (the
\* specification FilterSpec).
VARIABLES
    f_in,             \* the extraction result passed: entities and relationships
    f_pc,             \* "call", "returned", "raised", or "off"
    f_out             \* the result returned

filterVars == <<f_in, f_pc, f_out>>

\* One call of GraphGenerator.process_document followed chunk by chunk (the
\* specification GraphSpec).
VARIABLES
    k_doc,            \* document_id and the extension of file_path
    k_chunks,         \* the chunks passed
    k_pc,             \* "loop", "returned", "raised", or "off"
    k_i,              \* the index of the next chunk of the loop
    k_calls,          \* the LLM calls made: chunk index, reply, result of the extraction
    k_entities,       \* all_entities
    k_relationships,  \* all_relationships
    k_store           \* the lists passed to store_entities_and_relationships

graphVars == <<k_doc, k_chunks, k_pc, k_i, k_calls, k_entities, k_relationships, k_store>>

\* One call of detect_language or detect_language_for_splitting (the
\* specification LangSpec).
VARIABLES
    l_fn,             \* the function called
    l_text,           \* the text: what the tests of the function see of it
    l_pc,             \* "call", "returned", "raised", or "off"
    l_result          \* the code returned

langVars == <<l_fn, l_text, l_pc, l_result>>

\* One request of the document status view (specification QuerySpec).
VARIABLES
    q_table,          \* the Document rows the database holds, by primary key
    q_request,        \* the URL argument document_id and the query parameter ids
    q_pc,             \* "off", "called", "returned"
    q_response        \* the HTTP status code and the body of the Response

queryVars == <<q_table, q_request, q_pc, q_response>>

\* The folder endpoints (specification FolderSpec) and the deletions
\* (specification DeleteSpec).
VARIABLES
    d_folders,        \* the Folder rows: name and parent, by primary key
    d_requests,       \* per client, the request between is_valid() and save()
    d_dirs,           \* the directories and files that exist on disk, as paths
    d_files,          \* the Document rows with a file: folder and stored path
    d_log             \* what the last deletion was asked to remove and did

folderVars == <<d_folders, d_requests, d_dirs, d_files, d_log>>

\* One execution of process_document_task for a document id whose row may
\* be missing or be deleted meanwhile (specification AttemptSpec).
VARIABLES
    a_row,            \* the Document row of the id: whether it exists, status, error_message
    a_retries,        \* self.request.retries of the execution
    a_pc,             \* position of the execution in the task
    a_exc,            \* str() of the exception being handled
    a_report,         \* /tmp/document_error_<id>.log was written by the execution
    a_retry_sent,     \* self.retry() sent a retry message
    a_result          \* what the task returned

attemptVars == <<a_row, a_retries, a_pc, a_exc, a_report, a_retry_sent, a_result>>

otherVars == <<queryVars, folderVars, attemptVars>>

componentVars == <<embedVars, indexVars, schemaVars, filterVars, graphVars, langVars, otherVars>>

stageVars == <<pipelineVars, extractVars, splitVars, componentVars>>

machineVars == <<status, error_message, file_type, sinceUpdate, sinceProcessing,
                 tasks, reprocessing, cleanup_pc, stuck, USE_MOCK_PROCESSOR>>

vars == <<status, error_message, file_type, sinceUpdate, sinceProcessing,
          tasks, reprocessing, cleanup_pc, stuck, USE_MOCK_PROCESSOR, stageVars>>

docVars == <<status, error_message, file_type, sinceUpdate, sinceProcessing>>

\* ---- helpers ----

One(r) == SetToBag({r})

Task(d, n, p, e, k) == [doc |-> d, retries |-> n, pc |-> p, exc |-> e, runs |-> k]

\* process_document_task.delay(id): a fresh task message
NewTask(d) == Task(d, 0, "queued", NULL, 0)

MockTask(d) == Task(d, 0, "mock", NULL, 0)

TasksOf(d) == {t \in BagToSet(tasks) : t.doc = d}

\* a timestamp distance after one more tick
Older(m) == IF m > StaleMinutes THEN m ELSE m + TickMinutes

\* sinceProcessing after a status write: restarts when the row enters
\* 'processing', is irrelevant (0) outside 'processing'
ProcessingClock(d, new) ==
    IF new = "processing" /\ status[d] = "processing" THEN sinceProcessing[d] ELSE 0

\* save(update_fields=['status', 'error_message']) / queryset.update(status=, error_message=):
\* updated_at is not among the written columns
SaveStatusAndMessage(d, s, m) ==
    /\ status' = [status EXCEPT ![d] = s]
    /\ error_message' = [error_message EXCEPT ![d] = m]
    /\ sinceProcessing' = [sinceProcessing EXCEPT ![d] = ProcessingClock(d, s)]
    /\ UNCHANGED <<file_type, sinceUpdate>>

\* save(update_fields=['status'])
SaveStatus(d, s) ==
    /\ status' = [status EXCEPT ![d] = s]
    /\ sinceProcessing' = [sinceProcessing EXCEPT ![d] = ProcessingClock(d, s)]
    /\ UNCHANGED <<error_message, file_type, sinceUpdate>>

\* ---- DocumentService.process_document: the hard failures ----
\* text: whether extraction produced text; chunks: whether splitting
\* produced chunks.  The result is "ok" or the message of the ValueError.
process_document(text, chunks) ==
    IF ~text THEN NoTextMessage
    ELSE IF ~chunks THEN NoChunksMessage
    ELSE "ok"

\* ---- exceptions and values of the stage-level specifications ----

Exception(type, msg) == [type |-> type, msg |-> msg]

NoException == Exception("", "")

MissingKeyMessage == "Missing OPENAI_API_KEY environment variable or setting"

NoneLowerMessage == "'NoneType' object has no attribute 'lower'"

NoSuchFileMessage == "[Errno 2] No such file or directory: '<file path>'"

\* a function that returned v / that raised x (none: the empty value of
\* the type it returns)
Return(v) == [ok |-> TRUE, value |-> v, exc |-> NoException]

Raise(x, none) == [ok |-> FALSE, value |-> none, exc |-> x]

NoEnv == [ext |-> "", api_key |-> FALSE, testing |-> FALSE, neo4j_up |-> FALSE, retries |-> 0]

NoGraphResult == [entities_count |-> 0, relationships_count |-> 0, related_documents |-> 0]

\* no attempt is being followed
PipelineIdle ==
    /\ stage = "off"
    /\ env = NoEnv
    /\ row = [status |-> NoRow, error_message |-> NULL]
    /\ invoked = <<>>
    /\ doc_text = ""
    /\ doc_chunks = <<>>
    /\ embeddings = <<>>
    /\ index_ids = <<>>
    /\ llm_replies = <<>>
    /\ graph_result = NoGraphResult
    /\ graph_store = [entities |-> <<>>, relationships |-> <<>>]
    /\ raised = NoException
    /\ retry_sent = FALSE

\* a text: what produced it, and how many characters strip() leaves of it
Text(by, len) == [by |-> by, len |-> len]

EmptyString == Text("", 0)

\* no call of extract is being followed
ExtractIdle ==
    /\ x_file = [ext |-> "", exists |-> FALSE]
    /\ x_log = <<>>
    /\ x_pc = "off"
    /\ x_result = EmptyString

\* no call of split is being followed
SplitIdle ==
    /\ s_text = [lead |-> 0, body |-> 0, trail |-> 0]
    /\ s_args = [chunk_size |-> 0, chunk_overlap |-> 0]
    /\ s_pc = "off"
    /\ s_params = [chunk_size |-> 0, chunk_overlap |-> 0]
    /\ s_result = <<>>

\* no call of generate is being followed
EmbedIdle ==
    /\ g_chunks = <<>>
    /\ g_env = [testing |-> FALSE, api_key |-> FALSE]
    /\ g_pc = "off"
    /\ g_calls = <<>>
    /\ g_all = <<>>
    /\ g_result = <<>>

\* no call of index is being followed
IndexIdle ==
    /\ i_args = [chunks |-> <<>>, embeddings |-> <<>>, metadata |-> <<>>]
    /\ i_store = ""
    /\ i_chunks = <<>>
    /\ i_embeddings = <<>>
    /\ i_pc = "off"
    /\ i_added = <<>>
    /\ i_result = <<>>

\* no use of the normalizers is being followed
SchemaIdle ==
    /\ n_kind = ""
    /\ n_in = <<>>
    /\ n_pc = "off"
    /\ n_once = <<>>
    /\ n_twice = <<>>

\* no call of the metadata filter is being followed
FilterIdle ==
    /\ f_in = [entities |-> <<>>, relationships |-> <<>>]
    /\ f_pc = "off"
    /\ f_out = [entities |-> <<>>, relationships |-> <<>>]

\* no call of GraphGenerator.process_document is being followed
GraphIdle ==
    /\ k_doc = [document_id |-> "", ext |-> ""]
    /\ k_chunks = <<>>
    /\ k_pc = "off"
    /\ k_i = 0
    /\ k_calls = <<>>
    /\ k_entities = <<>>
    /\ k_relationships = <<>>
    /\ k_store = <<>>

\* no call of the language detectors is being followed
LangIdle ==
    /\ l_fn = ""
    /\ l_text = <<>>
    /\ l_pc = "off"
    /\ l_result = ""

\* no request of the status view is being followed
QueryIdle ==
    /\ q_table = <<>>
    /\ q_request = <<>>
    /\ q_pc = "off"
    /\ q_response = <<>>

\* no folder request is being followed
FolderIdle ==
    /\ d_folders = <<>>
    /\ d_requests = <<>>
    /\ d_dirs = {}
    /\ d_files = <<>>
    /\ d_log = <<>>

\* no execution is being followed
AttemptIdle ==
    /\ a_row = <<>>
    /\ a_retries = 0
    /\ a_pc = "off"
    /\ a_exc = ""
    /\ a_report = FALSE
    /\ a_retry_sent = FALSE
    /\ a_result = ""

OthersIdle == QueryIdle /\ FolderIdle /\ AttemptIdle

ComponentsIdle ==
    EmbedIdle /\ IndexIdle /\ SchemaIdle /\ FilterIdle /\ GraphIdle /\ LangIdle /\ OthersIdle

StagesIdle == PipelineIdle /\ ExtractIdle /\ SplitIdle /\ ComponentsIdle

\* ---- initial state ----
Init ==
    /\ status = [d \in Docs |-> NoRow]
    /\ error_message = [d \in Docs |-> NULL]
    /\ file_type = [d \in Docs |-> ""]
    /\ sinceUpdate = [d \in Docs |-> 0]
    /\ sinceProcessing = [d \in Docs |-> 0]
    /\ tasks = EmptyBag
    /\ reprocessing = EmptyBag
    /\ cleanup_pc = "idle"
    /\ stuck = {}
    /\ USE_MOCK_PROCESSOR \in BOOLEAN
    /\ StagesIdle

\* ---- upload: serializer create + handle_document_post_save ----
\* ft: the guessed file type; fails: the handler raises (file metadata
\* unreadable, broker unreachable)
Upload(d, ft, fails) ==
    /\ status[d] = NoRow
    /\ sinceUpdate' = [sinceUpdate EXCEPT ![d] = 0]
    /\ sinceProcessing' = [sinceProcessing EXCEPT ![d] = 0]
    /\ file_type' = [file_type EXCEPT ![d] = ft]
    /\ UNCHANGED <<reprocessing, cleanup_pc, stuck, USE_MOCK_PROCESSOR, stageVars>>
    /\ IF fails
       THEN /\ status' = [status EXCEPT ![d] = "error"]
            /\ error_message' = [error_message EXCEPT ![d] = InitErrorMessage]
            /\ UNCHANGED tasks
       ELSE IF ft \in unsupported_types
       THEN /\ status' = [status EXCEPT ![d] = "ready"]
            /\ UNCHANGED <<error_message, tasks>>
       ELSE /\ BagCardinality(tasks) < MaxTasks
            /\ status' = [status EXCEPT ![d] = "processing"]
            /\ UNCHANGED error_message
            /\ tasks' = tasks (+) One(IF USE_MOCK_PROCESSOR THEN MockTask(d) ELSE NewTask(d))

\* ---- process_document_task ----

\* TaskStart with the wrong status literal
TaskStartMarksReady(t) ==
    /\ t \in BagToSet(tasks)
    /\ t.pc = "queued"
    /\ IF status[t.doc] # "processing"
       THEN SaveStatusAndMessage(t.doc, "ready", NULL)
       ELSE UNCHANGED docVars
    /\ tasks' = (tasks (-) One(t)) (+) One([t EXCEPT !.pc = "body", !.runs = @ + 1])
    /\ UNCHANGED <<reprocessing, cleanup_pc, stuck, USE_MOCK_PROCESSOR, stageVars>>

\* default_retry_delay=30: a retry message is delivered 30 s after
\* self.retry() sent it, when the execution that sent it has long returned
Delivered(t) ==
    ~\E p \in BagToSet(tasks) : p.doc = t.doc /\ p.pc = "retry" /\ p.retries + 1 = t.retries

\* first transaction: lock the row, set 'processing' if not already; the
\* pipeline body starts (runs counts the bodies started for one submitted
\* task, retries included)
TaskStart(t) ==
    /\ t \in BagToSet(tasks)
    /\ t.pc = "queued"
    /\ Delivered(t)
    /\ IF status[t.doc] # "processing"
       THEN SaveStatusAndMessage(t.doc, "processing", NULL)
       ELSE UNCHANGED docVars
    /\ tasks' = (tasks (-) One(t)) (+) One([t EXCEPT !.pc = "body", !.runs = @ + 1])
    /\ UNCHANGED <<reprocessing, cleanup_pc, stuck, USE_MOCK_PROCESSOR, stageVars>>

\* service.process_document(document) returned (it runs outside any lock
\* and writes no status): lock the row, set 'ready', return success
TaskSucceed(t, text, chunks) ==
    /\ t \in BagToSet(tasks)
    /\ t.pc = "body"
    /\ process_document(text, chunks) = "ok"
    /\ SaveStatus(t.doc, "ready")
    /\ tasks' = tasks (-) One(t)
    /\ UNCHANGED <<reprocessing, cleanup_pc, stuck, USE_MOCK_PROCESSOR, stageVars>>

\* ShouldRetry off by one
ShouldRetryInclusive(retries) == retries <= max_retries

\* if self.request.retries < self.max_retries
ShouldRetry(retries) == retries < max_retries

\* service.process_document(document) raised: lock the row, record the
\* error, then either self.retry() (which sends the retry message and
\* raises Retry) or return the error result
TaskFail(t, text, chunks) ==
    /\ t \in BagToSet(tasks)
    /\ t.pc = "body"
    /\ LET e == process_document(text, chunks)
       IN /\ e # "ok"
          /\ SaveStatusAndMessage(t.doc, "error", e)
          /\ IF ShouldRetry(t.retries)
             THEN /\ BagCardinality(tasks) < MaxTasks
                  /\ tasks' = ((tasks (-) One(t))
                                (+) One([t EXCEPT !.pc = "retry", !.exc = e]))
                                (+) One(Task(t.doc, t.retries + 1, "queued", NULL, t.runs))
             ELSE tasks' = tasks (-) One(t)
    /\ UNCHANGED <<reprocessing, cleanup_pc, stuck, USE_MOCK_PROCESSOR, stageVars>>

\* the outer "except Exception" catches the Retry raised by self.retry():
\* lock the row, record the critical error, return
TaskCriticalError(t) ==
    /\ t \in BagToSet(tasks)
    /\ t.pc = "retry"
    /\ SaveStatusAndMessage(t.doc, "error", CriticalMessage(t.exc))
    /\ tasks' = tasks (-) One(t)
    /\ UNCHANGED <<reprocessing, cleanup_pc, stuck, USE_MOCK_PROCESSOR, stageVars>>

\* the worker process dies inside service.process_document: the execution
\* is lost and nothing is written
WorkerCrash(t) ==
    /\ t \in BagToSet(tasks)
    /\ t.pc = "body"
    /\ tasks' = tasks (-) One(t)
    /\ UNCHANGED <<docVars, reprocessing, cleanup_pc, stuck, USE_MOCK_PROCESSOR, stageVars>>

\* ---- mock_process_document_task ----
MockProcess(t) ==
    /\ t \in BagToSet(tasks)
    /\ t.pc = "mock"
    /\ SaveStatus(t.doc, "ready")
    /\ tasks' = tasks (-) One(t)
    /\ UNCHANGED <<reprocessing, cleanup_pc, stuck, USE_MOCK_PROCESSOR, stageVars>>

\* ---- cleanup_processing_documents ----

\* StuckDocuments without the status filter
StuckDocumentsAnyStatus == {d \in Docs : sinceUpdate[d] > StaleMinutes}

\* StuckDocuments with the comparison turned around (updated_at__gt)
StuckDocumentsFresh == {d \in Docs : status[d] = "processing" /\ sinceUpdate[d] < StaleMinutes}

\* Document.objects.filter(status='processing', updated_at__lt=now - 30 min)
StuckDocuments == {d \in Docs : status[d] = "processing" /\ sinceUpdate[d] > StaleMinutes}

\* the queryset is evaluated when the loop starts
CleanupQuery ==
    /\ cleanup_pc = "idle"
    /\ cleanup_pc' = "loop"
    /\ stuck' = StuckDocuments
    /\ UNCHANGED <<docVars, tasks, reprocessing, USE_MOCK_PROCESSOR, stageVars>>

\* CleanupSave with update_fields=['status'] only
CleanupSaveStatusOnly(d) ==
    /\ cleanup_pc = "loop"
    /\ d \in stuck
    /\ \A e \in stuck : sinceUpdate[d] <= sinceUpdate[e]
    /\ SaveStatus(d, "error")
    /\ stuck' = stuck \ {d}
    /\ UNCHANGED <<tasks, reprocessing, cleanup_pc, USE_MOCK_PROCESSOR, stageVars>>

\* one iteration of the loop, in the order of Meta.ordering (-created_at):
\* the fetched instance is saved whatever the row holds by now
CleanupSave(d) ==
    /\ cleanup_pc = "loop"
    /\ d \in stuck
    /\ \A e \in stuck : sinceUpdate[d] <= sinceUpdate[e]
    /\ SaveStatusAndMessage(d, "error", TimeoutMessage)
    /\ stuck' = stuck \ {d}
    /\ UNCHANGED <<tasks, reprocessing, cleanup_pc, USE_MOCK_PROCESSOR, stageVars>>

\* the loop is over: return count
CleanupReturn ==
    /\ cleanup_pc = "loop"
    /\ stuck = {}
    /\ cleanup_pc' = "idle"
    /\ UNCHANGED <<docVars, tasks, reprocessing, stuck, USE_MOCK_PROCESSOR, stageVars>>

\* ---- reprocess_failed_document ----

\* ShouldReprocess testing for "not ready" instead of "error"
ShouldReprocessUnlessReady(s) == s # "ready"

\* if document.status == 'error'
ShouldReprocess(s) == s = "error"

\* Document.objects.get(id=document_id), without a lock, and the test of
\* the fetched status: a call that is skipped (or finds no row) returns here
ReprocessGet(d) ==
    IF ShouldReprocess(status[d])
    THEN /\ BagCardinality(reprocessing) < MaxReprocess
         /\ reprocessing' = reprocessing (+) One([doc |-> d, status |-> status[d]])
         /\ UNCHANGED <<docVars, tasks, cleanup_pc, stuck, USE_MOCK_PROCESSOR, stageVars>>
    ELSE UNCHANGED vars

\* the rest of the call: save the reset status, queue the task
ReprocessFinish(c) ==
    /\ c \in BagToSet(reprocessing)
    /\ reprocessing' = reprocessing (-) One(c)
    /\ BagCardinality(tasks) < MaxTasks
    /\ SaveStatusAndMessage(c.doc, "processing", NULL)
    /\ tasks' = tasks (+) One(NewTask(c.doc))
    /\ UNCHANGED <<cleanup_pc, stuck, USE_MOCK_PROCESSOR, stageVars>>

\* ---- time ----
Tick ==
    /\ sinceUpdate' = [d \in Docs |->
          IF status[d] = NoRow THEN 0 ELSE Older(sinceUpdate[d])]
    /\ sinceProcessing' = [d \in Docs |->
          IF status[d] = "processing" THEN Older(sinceProcessing[d]) ELSE 0]
    /\ UNCHANGED <<status, error_message, file_type, tasks, reprocessing, cleanup_pc,
                   stuck, USE_MOCK_PROCESSOR, stageVars>>

Next ==
    \/ \E d \in Docs, ft \in FileTypes, fails \in BOOLEAN : Upload(d, ft, fails)
    \/ \E t \in BagToSet(tasks) : TaskStart(t)
    \/ \E t \in BagToSet(tasks), text \in BOOLEAN, chunks \in BOOLEAN : TaskSucceed(t, text, chunks)
    \/ \E t \in BagToSet(tasks), text \in BOOLEAN, chunks \in BOOLEAN : TaskFail(t, text, chunks)
    \/ \E t \in BagToSet(tasks) : TaskCriticalError(t)
    \/ \E t \in BagToSet(tasks) : WorkerCrash(t)
    \/ \E t \in BagToSet(tasks) : MockProcess(t)
    \/ CleanupQuery
    \/ \E d \in Docs : CleanupSave(d)
    \/ CleanupReturn
    \/ \E d \in Docs : ReprocessGet(d)
    \/ \E c \in BagToSet(reprocessing) : ReprocessFinish(c)
    \/ Tick

Spec == Init /\ [][Next]_vars

\* a worker executes the next step of some task
WorkerStep ==
    \E t \in BagToSet(tasks) :
        \/ TaskStart(t)
        \/ \E text \in BOOLEAN, chunks \in BOOLEAN : TaskSucceed(t, text, chunks)
        \/ \E text \in BOOLEAN, chunks \in BOOLEAN : TaskFail(t, text, chunks)
        \/ TaskCriticalError(t)
        \/ MockProcess(t)

\* The workers keep executing task steps while there are any, the beat
\* scheduler runs the sweep again and again, and time passes.
Fairness ==
    /\ WF_vars(Tick)
    /\ WF_vars(CleanupQuery)
    /\ WF_vars(\E d \in Docs : CleanupSave(d))
    /\ WF_vars(CleanupReturn)
    /\ WF_vars(WorkerStep)

FairSpec == Init /\ [][Next]_vars /\ Fairness

\* ---- what a step is, read off the state before and after ----

\* the step ends a reprocess_failed_document call c
FinishesReprocess(c) ==
    /\ c \in BagToSet(reprocessing)
    /\ reprocessing' = reprocessing (-) One(c)

\* the step is the queryset evaluation of a sweep
StartsSweep == cleanup_pc = "idle" /\ cleanup_pc' = "loop"

\* the step is the save of row d by the sweep
SweepSaves(d) == d \in stuck /\ d \notin stuck'

\* executions of process_document_task for d that are queued or running
ActiveTasks(d) ==
    LET S == {t \in BagToSet(tasks) : t.doc = d /\ t.pc \in {"queued", "body"}}
    IN BagCardinality([t \in S |-> CopiesIn(t, tasks)])

\* ---- claims ----

\* C1: in every reachable state a document whose status is 'error' has a
\* non-null error_message.
ErrorHasMessage == \A d \in Docs : status[d] = "error" => error_message[d] # NULL

\* C1 witness: the row is in 'error' after a failed attempt whose retry was scheduled
ErrorAfterRetryScheduled ==
    \E d \in Docs : status[d] = "error" /\ error_message[d] = CriticalMessage(NoTextMessage)

\* C2 (as claimed): the status of an existing row changes only along
\* processing->ready, processing->error and error->processing; in
\* particular 'ready' is never left and 'error' never becomes 'ready'.
\* (The claim also names reprocess as the only source of
\* error->processing; the edges alone are stated here.)
MonotonicStatus ==
    [][\A d \in Docs :
        (status[d] # NoRow /\ status'[d] # status[d]) =>
            <<status[d], status'[d]>> \in
                {<<"processing", "ready">>, <<"processing", "error">>, <<"error", "processing">>}]_vars

\* C3 (as claimed): a row becomes 'ready' only in the step in which a
\* process_document_task of that document writes the result of a pipeline
\* run that returned without a hard failure.
ReadyOnlyAfterPipeline ==
    [][\A d \in Docs :
        (status'[d] = "ready" /\ status[d] # "ready") =>
            \E t \in TasksOf(d) : TaskSucceed(t, TRUE, TRUE)]_vars

\* C3 (amended): a row becomes 'ready' only after a pipeline run of that
\* document returned without a hard failure, or at upload when the file
\* type is one of the unsupported image types, or by the mock task.
ReadyOnlyAfterPipelineOrSkipped ==
    [][\A d \in Docs :
        (status'[d] = "ready" /\ status[d] # "ready") =>
            \/ \E t \in TasksOf(d) : TaskSucceed(t, TRUE, TRUE)
            \/ status[d] = NoRow /\ file_type'[d] \in unsupported_types
            \/ \E t \in TasksOf(d) : MockProcess(t)]_vars

\* C3 witness: a processable document is 'ready' without the mock task
ReadyThroughPipeline ==
    \E d \in Docs :
        status[d] = "ready" /\ file_type[d] \notin unsupported_types /\ ~USE_MOCK_PROCESSOR

\* C4 (as claimed): every status write of reprocess_failed_document and of
\* cleanup_processing_documents is based on the status the row holds at
\* the moment of the write, as it would be under the row lock.
NoStaleStatusWrite ==
    [][/\ \A c \in BagToSet(reprocessing) :
             FinishesReprocess(c) => status[c.doc] = c.status
       /\ \A d \in Docs :
             SweepSaves(d) => status[d] = "processing"]_vars

SweepTakesOnlyStale ==
    [][StartsSweep => \A d \in stuck' : sinceProcessing[d] > StaleMinutes]_vars

RetriesBounded ==
    /\ [](\A t \in BagToSet(tasks) : t.retries <= max_retries /\ t.runs <= max_retries + 1)
    /\ [][\A t \in BagToSet(tasks) :
            (\E text \in BOOLEAN, chunks \in BOOLEAN : TaskFail(t, text, chunks)) =>
                /\ status'[t.doc] = "error"
                /\ error_message'[t.doc] \in {NoTextMessage, NoChunksMessage}
                /\ IF t.retries < max_retries
                   THEN CopiesIn(Task(t.doc, t.retries + 1, "queued", NULL, t.runs), tasks')
                          = CopiesIn(Task(t.doc, t.retries + 1, "queued", NULL, t.runs), tasks) + 1
                   ELSE tasks' = tasks (-) One(t)]_vars

\* C8 witness: the last attempt has failed, the row is left in 'error'
\* with the message of the pipeline and nothing is scheduled
RetriesExhausted ==
    \E d \in Docs :
        /\ status[d] = "error" /\ error_message[d] = NoTextMessage
        /\ tasks = EmptyBag

\* C9 (as claimed): at most one process_document_task execution is queued
\* or running for a document.
OneTaskPerDocument == \A d \in Docs : ActiveTasks(d) <= 1

MaxChunks == 2

\* a chunk of fewer than 50 characters, one of 50 or more
ChunkKinds == {"short chunk", "chunk of prose"}

Chunks == UNION {[1..n -> ChunkKinds] : n \in 0..MaxChunks}

\* extracted text: none, fewer than 10 non-blank characters, more
TinyText == "tiny"

SomeText == "text"

\* ---- OpenAIEmbeddingGenerator.generate ----
\* testing: settings.USE_MOCK_EMBEDDINGS; api_key: OPENAI_API_KEY is set;
\* api[i]: whether openai.embeddings.create works for chunk i
generate(chunks, testing, api_key, api) ==
    IF chunks = <<>> THEN Return(<<>>)
    ELSE IF testing THEN Return([i \in 1..Len(chunks) |-> "mock vector"])
    ELSE IF ~api_key THEN Raise(Exception("ValueError", MissingKeyMessage), <<>>)
    ELSE Return([i \in 1..Len(chunks) |-> IF api[i] THEN "vector" ELSE "zero vector"])

\* STEP 3 of process_document: a failure of generate, or a wrong number of
\* vectors, leaves the empty list
EmbeddingsFor(chunks, g) ==
    IF g.ok /\ g.value # <<>> /\ Len(g.value) = Len(chunks) THEN g.value ELSE <<>>

\* ---- ChromaIndexer.index ----
Min(a, b) == IF a < b THEN a ELSE b

\* the ids {document_id}_chunk_{i}, named by i
ChunkIds(n) == [i \in 1..n |-> i - 1]

\* store_ok: whether collection.add works
index(chunks, vectors, store_ok) ==
    IF chunks = <<>> THEN <<>>
    ELSE IF vectors = <<>> THEN ChunkIds(Len(chunks))
    ELSE IF store_ok THEN ChunkIds(Min(Len(chunks), Len(vectors)))
    ELSE <<>>

\* ---- GraphGenerator ----
Entity(id, type, name) == [id |-> id, type |-> type, name |-> name]

Relationship(source, type, target) == [source |-> source, type |-> type, target |-> target]

GraphData(entities, relationships) == [entities |-> entities, relationships |-> relationships]

NoGraphData == GraphData(<<>>, <<>>)

\* what the LLM call of one chunk meets: no credential, a failing call, a
\* reply that is not JSON, a well-formed reply, a well-formed reply with an
\* entity whose name is null
LLMReplies == {"no key", "call fails", "not json", "entities", "null name"}

RepliesFor(e) == IF e.api_key THEN LLMReplies \ {"no key"} ELSE {"no key"}

\* extract_entities_and_relationships: every failure inside it is caught
\* and gives the empty result; the types come back normalized
extract_entities_and_relationships(reply) ==
    CASE reply = "entities" ->
            GraphData(<<Entity("ada", "Person", "Ada Lovelace"),
                        Entity("word", "Product", "Microsoft Office Word")>>,
                      <<Relationship("ada", "USES", "word")>>)
      [] reply = "null name" ->
            GraphData(<<Entity("ada", "Person", NULL)>>, <<>>)
      [] OTHER -> NoGraphData

metadata_terms == {"Microsoft Office Word"}

\* _filter_doc_metadata_entities: entity.get('name', '').lower() raises
\* for a null name
filter_doc_metadata_entities(result) ==
    IF \E i \in 1..Len(result.entities) : result.entities[i].name = NULL
    THEN Raise(Exception("AttributeError", NoneLowerMessage), NoGraphData)
    ELSE LET dropped == {result.entities[i].id : i \in
                            {j \in 1..Len(result.entities) : result.entities[j].name \in metadata_terms}}
             kept(en) == en.id \notin dropped
             linked(rel) == rel.source \notin dropped /\ rel.target \notin dropped
             filtered == GraphData(SelectSeq(result.entities, kept), SelectSeq(result.relationships, linked))
         IN IF Len(filtered.entities) * 10 < Len(result.entities) /\ Len(result.entities) > 3
            THEN Return(result)
            ELSE Return(filtered)

\* the loop of GraphGenerator.process_document over the chunks from the
\* i-th on: replies[i] is what the LLM call of chunk i meets; an exception
\* of the filter leaves the loop and the function
RECURSIVE GraphChunks(_, _, _, _)
GraphChunks(chunks, replies, is_doc_file, i) ==
    IF i > Len(chunks) THEN Return(NoGraphData)
    ELSE IF chunks[i] = "short chunk" THEN GraphChunks(chunks, replies, is_doc_file, i + 1)
    ELSE LET result == extract_entities_and_relationships(replies[i])
             filtered == IF is_doc_file THEN filter_doc_metadata_entities(result)
                         ELSE Return(result)
             rest == GraphChunks(chunks, replies, is_doc_file, i + 1)
         IN IF ~filtered.ok THEN filtered
            ELSE IF ~rest.ok THEN rest
            ELSE Return(GraphData(filtered.value.entities \o rest.value.entities,
                                  filtered.value.relationships \o rest.value.relationships))

\* what store_entities_and_relationships leaves in the graph store: it
\* raises when the store is unreachable, and the caller swallows that
Stored(data, neo4j_up) == IF neo4j_up THEN data ELSE NoGraphData

\* GraphGenerator.process_document: the counts, or the exception it re-raises
graph_process_document(chunks, replies, is_doc_file) ==
    LET all == GraphChunks(chunks, replies, is_doc_file, 1)
    IN IF ~all.ok THEN Raise(all.exc, NoGraphResult)
       ELSE Return([entities_count |-> Len(all.value.entities),
                    relationships_count |-> Len(all.value.relationships),
                    related_documents |-> 0])

\* ---- the attempt ----

\* str() of the Retry that self.retry(exc=x) raises, as the outer handler
\* formats it: repr() quotes a message holding apostrophes with double
\* quotes and shows an OSError by its errno and strerror
Repr(x) ==
    CASE x.type = "FileNotFoundError" -> "FileNotFoundError(2, 'No such file or directory')"
      [] x.msg = NoneLowerMessage -> x.type \o "(\"" \o x.msg \o "\")"
      [] OTHER -> x.type \o "('" \o x.msg \o "')"

CriticalMessageOf(x) == "Critical task error: Retry in 30s: " \o Repr(x)

Envs == [ext : {"pdf", "doc"}, api_key : BOOLEAN, testing : BOOLEAN,
         neo4j_up : BOOLEAN, retries : 0..max_retries]

\* the status machine at rest
MachineIdle ==
    /\ status = [d \in Docs |-> NoRow]
    /\ error_message = [d \in Docs |-> NULL]
    /\ file_type = [d \in Docs |-> ""]
    /\ sinceUpdate = [d \in Docs |-> 0]
    /\ sinceProcessing = [d \in Docs |-> 0]
    /\ tasks = EmptyBag
    /\ reprocessing = EmptyBag
    /\ cleanup_pc = "idle"
    /\ stuck = {}
    /\ USE_MOCK_PROCESSOR = FALSE

\* the task message is delivered: the row is 'processing' (upload or
\* reprocess wrote it) or 'error' (the previous attempt or the sweep did)
PipelineInit ==
    /\ MachineIdle
    /\ ComponentsIdle
    /\ ExtractIdle
    /\ SplitIdle
    /\ stage = "queued"
    /\ env \in Envs
    /\ row \in {[status |-> "processing", error_message |-> NULL],
                [status |-> "error", error_message |-> TimeoutMessage]}
    /\ invoked = <<>>
    /\ doc_text = ""
    /\ doc_chunks = <<>>
    /\ embeddings = <<>>
    /\ index_ids = <<>>
    /\ llm_replies = <<>>
    /\ graph_result = NoGraphResult
    /\ graph_store = NoGraphData
    /\ raised = NoException
    /\ retry_sent = FALSE

\* first transaction of the task
TaskBegin ==
    /\ stage = "queued"
    /\ row' = IF row.status # "processing"
              THEN [status |-> "processing", error_message |-> NULL]
              ELSE row
    /\ stage' = "extract"
    /\ UNCHANGED <<machineVars, componentVars, extractVars, splitVars, env, invoked, doc_text, doc_chunks, embeddings, index_ids,
                   llm_replies, graph_result, graph_store, raised, retry_sent>>

\* what extractor.extract can do for a file of the extension: a .pdf gives
\* "" or more than 100 characters; a .doc gives cleaned text of any
\* length, or raises when the file is gone
ExtractResults(ext) ==
    IF ext = "doc"
    THEN {Return(""), Return(TinyText), Return(SomeText),
          Raise(Exception("FileNotFoundError", NoSuchFileMessage), "")}
    ELSE {Return(""), Return(SomeText)}

\* HasText with the test left out
HasTextAlways(t) == TRUE

\* if not text: raise ValueError
HasText(t) == t # ""

\* STEP 1
Extract ==
    /\ stage = "extract"
    /\ invoked' = Append(invoked, "extract")
    /\ \E out \in ExtractResults(env.ext) :
          /\ doc_text' = out.value
          /\ IF ~out.ok
             THEN raised' = out.exc /\ stage' = "raised"
             ELSE IF ~HasText(out.value)
             THEN raised' = Exception("ValueError", NoTextMessage) /\ stage' = "raised"
             ELSE UNCHANGED raised /\ stage' = "split"
    /\ UNCHANGED <<machineVars, componentVars, extractVars, splitVars, env, row, doc_chunks, embeddings, index_ids,
                   llm_replies, graph_result, graph_store, retry_sent>>

\* what splitter.split can return for the text
SplitResults(t) == IF t = TinyText THEN {<<>>} ELSE Chunks \ {<<>>}

\* HasChunks with the test left out
HasChunksAlways(c) == TRUE

\* if not chunks: raise ValueError
HasChunks(c) == c # <<>>

\* STEP 2
Split ==
    /\ stage = "split"
    /\ invoked' = Append(invoked, "split")
    /\ \E c \in SplitResults(doc_text) :
          /\ doc_chunks' = c
          /\ IF ~HasChunks(c)
             THEN raised' = Exception("ValueError", NoChunksMessage) /\ stage' = "raised"
             ELSE UNCHANGED raised /\ stage' = "embed"
    /\ UNCHANGED <<machineVars, componentVars, extractVars, splitVars, env, row, doc_text, embeddings, index_ids,
                   llm_replies, graph_result, graph_store, retry_sent>>

\* STEP 3
Embed ==
    /\ stage = "embed"
    /\ invoked' = Append(invoked, "embed")
    /\ \E api \in [1..Len(doc_chunks) -> BOOLEAN] :
          embeddings' = EmbeddingsFor(doc_chunks,
                                      generate(doc_chunks, env.testing, env.api_key, api))
    /\ stage' = "index"
    /\ UNCHANGED <<machineVars, componentVars, extractVars, splitVars, env, row, doc_text, doc_chunks, index_ids,
                   llm_replies, graph_result, graph_store, raised, retry_sent>>

\* STEP 4
Index ==
    /\ stage = "index"
    /\ invoked' = Append(invoked, "index")
    /\ \E store_ok \in BOOLEAN : index_ids' = index(doc_chunks, embeddings, store_ok)
    /\ stage' = "graph"
    /\ UNCHANGED <<machineVars, componentVars, extractVars, splitVars, env, row, doc_text, doc_chunks, embeddings,
                   llm_replies, graph_result, graph_store, raised, retry_sent>>

\* the replies the chunks can meet: a chunk under 50 characters is skipped
RepliesOf(c, e) ==
    {r \in [1..Len(c) -> LLMReplies \cup {"skipped"}] :
        \A i \in 1..Len(c) :
            IF c[i] = "short chunk" THEN r[i] = "skipped" ELSE r[i] \in RepliesFor(e)}

\* STEP 5
Graph ==
    /\ stage = "graph"
    /\ invoked' = Append(invoked, "graph")
    /\ \E replies \in RepliesOf(doc_chunks, env) :
          LET g == graph_process_document(doc_chunks, replies, env.ext = "doc")
              all == GraphChunks(doc_chunks, replies, env.ext = "doc", 1)
          IN /\ llm_replies' = replies
             /\ IF g.ok
                THEN /\ graph_result' = g.value
                     /\ graph_store' = Stored(all.value, env.neo4j_up)
                     /\ UNCHANGED raised
                     /\ stage' = "returned"
                ELSE /\ raised' = g.exc
                     /\ stage' = "raised"
                     /\ UNCHANGED <<graph_result, graph_store>>
    /\ UNCHANGED <<machineVars, componentVars, extractVars, splitVars, env, row, doc_text, doc_chunks, embeddings, index_ids,
                   retry_sent>>

\* process_document returned: second transaction, 'ready'
TaskSuccess ==
    /\ stage = "returned"
    /\ row' = [row EXCEPT !.status = "ready"]
    /\ stage' = "done"
    /\ UNCHANGED <<machineVars, componentVars, extractVars, splitVars, env, invoked, doc_text, doc_chunks, embeddings, index_ids,
                   llm_replies, graph_result, graph_store, raised, retry_sent>>

\* process_document raised: the inner handler records the error and
\* retries while retries remain
TaskError ==
    /\ stage = "raised"
    /\ row' = [status |-> "error", error_message |-> raised.msg]
    /\ IF ShouldRetry(env.retries)
       THEN retry_sent' = TRUE /\ stage' = "retry"
       ELSE UNCHANGED retry_sent /\ stage' = "done"
    /\ UNCHANGED <<machineVars, componentVars, extractVars, splitVars, env, invoked, doc_text, doc_chunks, embeddings, index_ids,
                   llm_replies, graph_result, graph_store, raised>>

\* the Retry raised by self.retry() reaches the outer handler
TaskCritical ==
    /\ stage = "retry"
    /\ row' = [status |-> "error", error_message |-> CriticalMessageOf(raised)]
    /\ stage' = "done"
    /\ UNCHANGED <<machineVars, componentVars, extractVars, splitVars, env, invoked, doc_text, doc_chunks, embeddings, index_ids,
                   llm_replies, graph_result, graph_store, raised, retry_sent>>

PipelineNext ==
    \/ TaskBegin
    \/ Extract
    \/ Split
    \/ Embed
    \/ Index
    \/ Graph
    \/ TaskSuccess
    \/ TaskError
    \/ TaskCritical

PipelineSpec == PipelineInit /\ [][PipelineNext]_vars

\* ---- claims about one attempt (PipelineSpec) ----

StageOrder == <<"extract", "split", "embed", "index", "graph">>

Invoked(name) == \E i \in 1..Len(invoked) : invoked[i] = name

\* extractor.extract returned the empty string
NoTextCase == Invoked("extract") /\ doc_text = "" /\ raised.type # "FileNotFoundError"

\* splitter.split returned the empty list
NoChunksCase == Invoked("split") /\ doc_chunks = <<>>

\* the row after a failed attempt is over: 'error', with the message of x
\* (as the inner handler wrote it, or wrapped by the outer handler when a
\* retry was sent)
EndsInError(x) ==
    /\ stage \in {"raised", "retry", "done"}
    /\ raised = x
    /\ stage = "done" =>
          /\ row.status = "error"
          /\ row.error_message = IF retry_sent THEN CriticalMessageOf(x) ELSE x.msg

\* C11: when extraction yields the empty text, or splitting yields no
\* chunks, process_document raises before embedding, indexing or graph
\* generation are invoked, and the attempt leaves the document 'error'
\* with a message saying that no text was extracted, respectively that the
\* text could not be split.
HardFailureRecorded ==
    /\ NoTextCase =>
          /\ invoked = <<"extract">>
          /\ EndsInError(Exception("ValueError", NoTextMessage))
    /\ NoChunksCase =>
          /\ invoked = <<"extract", "split">>
          /\ EndsInError(Exception("ValueError", NoChunksMessage))

\* a last attempt over empty text is over
NoTextRecorded ==
    /\ stage = "done"
    /\ NoTextCase
    /\ ~retry_sent
    /\ row = [status |-> "error", error_message |-> NoTextMessage]

\* the embedding call failed for every chunk: generate raised, or every
\* vector is the substitute for a failed call
EmbeddingFailed ==
    /\ Invoked("embed")
    /\ \A i \in 1..Len(embeddings) : embeddings[i] = "zero vector"

\* C12: when the embedding call fails for every chunk, the pipeline still
\* calls the indexer and the graph generator and the document becomes
\* 'ready'; the embedding failure is never written to error_message.
EmbeddingFailureStillReady ==
    EmbeddingFailed =>
        /\ stage \notin {"raised", "retry"}
        /\ stage = "done" =>
              /\ invoked = StageOrder
              /\ row = [status |-> "ready", error_message |-> NULL]

\* C13: when every graph-store write fails, GraphGenerator.process_document
\* still returns the counts of the computed entities and relationships
\* without raising, and the document becomes 'ready'.
GraphStoreFailureStillReady ==
    ~env.neo4j_up /\ Invoked("graph") =>
        LET all == GraphChunks(doc_chunks, llm_replies, env.ext = "doc", 1)
        IN /\ raised = NoException
           /\ graph_result.entities_count = Len(all.value.entities)
           /\ graph_result.relationships_count = Len(all.value.relationships)
           /\ stage = "done" => row.status = "ready"

\* C14: once indexing has succeeded, no failure inside the graph stage makes
\* the document 'error' or makes the pipeline be retried.
GraphFailureNeverFails ==
    index_ids # <<>> /\ Invoked("graph") =>
        /\ stage \notin {"raised", "retry"}
        /\ row.status # "error"
        /\ ~retry_sent

\* C15: with no API key configured, the document does not become 'ready',
\* the failure shows in status and error_message, and no retry is sent.
MissingKeyIsFatal ==
    ~env.api_key /\ Invoked("embed") /\ stage = "done" =>
        /\ row.status = "error"
        /\ row.error_message = MissingKeyMessage
        /\ ~retry_sent

\* C16: within one attempt the stages are invoked in the order extract,
\* split, generate embeddings, index, generate graph, each at most once;
\* index only with chunks, and graph generation only after index returned.
StagesInOrder ==
    /\ Len(invoked) <= Len(StageOrder)
    /\ \A i \in 1..Len(invoked) : invoked[i] = StageOrder[i]
    /\ Invoked("index") => doc_chunks # <<>>
    /\ Invoked("graph") => Invoked("index") /\ stage # "index"

\* an attempt ran all five stages and made the document 'ready'
AllStagesRan == stage = "done" /\ invoked = StageOrder /\ row.status = "ready"

(***************************************************************************)
(* DoclingExtractor.extract: the cascade of extraction strategies of each  *)
(* file extension.  A strategy either raises or gives a text; of a text    *)
(* only the number of characters that strip() leaves is kept, before       *)
(* (raw) and after (clean) the character clean-up of the .doc strategies.  *)
(***************************************************************************)

\* if text and len(text.strip()) > 100
MinChars == 100

\* the fallback text of a .doc file is some 300 characters long
FallbackChars == 300

Lengths == {0, MinChars, MinChars + 1}

Gave(raw, clean) == [raises |-> FALSE, error |-> "", raw |-> raw, clean |-> clean]

Failed(error) == [raises |-> TRUE, error |-> error, raw |-> 0, clean |-> 0]

\* what a strategy can meet: nothing can be read of a file that is gone
Outcomes(file) ==
    IF file.exists
    THEN {Failed("Exception")} \cup {Gave(r, r) : r \in Lengths}
    ELSE {Failed("FileNotFoundError")}

\* the clean-up substitutes blanks for characters and strips the text
CleanedOutcomes(file) ==
    IF file.exists
    THEN {Failed("Exception")} \cup {Gave(p[1], p[2]) : p \in {q \in Lengths \X Lengths : q[2] <= q[1]}}
    ELSE {Failed("FileNotFoundError")}

TxtOutcomes(file) ==
    IF file.exists
    THEN {Failed("UnicodeDecodeError"), Failed("Exception")} \cup {Gave(r, r) : r \in Lengths}
    ELSE {Failed("FileNotFoundError")}

Exts == {"txt", "pdf", "docx", "doc", "png"}

TxtStrategies == <<"utf-8", "latin-1">>

PdfStrategies == <<"docling", "PyMuPDF", "pdfminer", "PyPDF2", "tesseract", "EasyOCR">>

DocxStrategies == <<"docx2txt", "python-docx">>

DocStrategies == <<"python-antiword", "docx2txt", "antiword", "catdoc", "tika", "binary">>

Tried(name, o) == [strategy |-> name, gave |-> o]

\* a cleaned text is stripped: with no character left it is ""
Cleaned(by, len) == IF len = 0 THEN EmptyString ELSE Text(by, len)

ExtractInit ==
    /\ MachineIdle
    /\ ComponentsIdle
    /\ PipelineIdle
    /\ SplitIdle
    /\ x_file \in [ext : Exts, exists : BOOLEAN]
    /\ x_log = <<>>
    /\ x_pc = "run"
    /\ x_result = EmptyString

\* .txt: read as UTF-8, as latin-1 after a decode error, "" after any
\* other failure
ExtractTxt ==
    /\ x_pc = "run"
    /\ x_file.ext = "txt"
    /\ LET i == Len(x_log) + 1
           name == TxtStrategies[i]
       IN \E o \in TxtOutcomes(x_file) :
             /\ x_log' = Append(x_log, Tried(name, o))
             /\ IF ~o.raises
                THEN x_result' = (IF o.raw = 0 THEN EmptyString ELSE Text(name, o.raw))
                     /\ x_pc' = "returned"
                ELSE IF o.error = "UnicodeDecodeError" /\ i < Len(TxtStrategies)
                THEN UNCHANGED x_result /\ x_pc' = "run"
                ELSE x_result' = EmptyString /\ x_pc' = "returned"
    /\ UNCHANGED <<machineVars, componentVars, pipelineVars, splitVars, x_file>>

\* Sufficient with >= for >
SufficientInclusive(o) == ~o.raises /\ o.raw >= MinChars

\* if text and len(text.strip()) > 100
Sufficient(o) == ~o.raises /\ o.raw > MinChars

\* .pdf: the next strategy of the cascade
TryPdf ==
    /\ x_pc = "run"
    /\ x_file.ext = "pdf"
    /\ LET i == Len(x_log) + 1
           name == PdfStrategies[i]
       IN \E o \in Outcomes(x_file) :
             /\ x_log' = Append(x_log, Tried(name, o))
             /\ IF Sufficient(o)
                THEN x_result' = Text(name, o.raw) /\ x_pc' = "returned"
                ELSE IF i = Len(PdfStrategies)
                THEN x_result' = EmptyString /\ x_pc' = "returned"
                ELSE UNCHANGED x_result /\ x_pc' = "run"
    /\ UNCHANGED <<machineVars, componentVars, pipelineVars, splitVars, x_file>>

\* if text and len(text.strip()) > 0
NotBlank(o) == ~o.raises /\ o.raw > 0

\* .docx: docx2txt, then python-docx
TryDocx ==
    /\ x_pc = "run"
    /\ x_file.ext = "docx"
    /\ LET i == Len(x_log) + 1
           name == DocxStrategies[i]
       IN \E o \in Outcomes(x_file) :
             /\ x_log' = Append(x_log, Tried(name, o))
             /\ IF NotBlank(o)
                THEN x_result' = Text(name, o.raw) /\ x_pc' = "returned"
                ELSE IF i = Len(DocxStrategies)
                THEN x_result' = EmptyString /\ x_pc' = "returned"
                ELSE UNCHANGED x_result /\ x_pc' = "run"
    /\ UNCHANGED <<machineVars, componentVars, pipelineVars, splitVars, x_file>>

\* the length a .doc strategy tests: Tika and the binary scrape test the
\* cleaned text, the others the text as extracted
DocTakes(name, o) ==
    /\ ~o.raises
    /\ IF name \in {"tika", "binary"} THEN o.clean > MinChars ELSE o.raw > MinChars

\* the text a .doc strategy returns: docx2txt the text as extracted, the
\* others the cleaned text
DocText(name, o) == IF name = "docx2txt" THEN Text(name, o.raw) ELSE Cleaned(name, o.clean)

\* .doc: the next strategy of the cascade
TryDoc ==
    /\ x_pc = "run"
    /\ x_file.ext = "doc"
    /\ LET i == Len(x_log) + 1
           name == DocStrategies[i]
       IN \E o \in CleanedOutcomes(x_file) :
             /\ x_log' = Append(x_log, Tried(name, o))
             /\ IF DocTakes(name, o)
                THEN x_result' = DocText(name, o) /\ x_pc' = "returned"
                ELSE IF i = Len(DocStrategies)
                THEN UNCHANGED x_result /\ x_pc' = "fallback"
                ELSE UNCHANGED x_result /\ x_pc' = "run"
    /\ UNCHANGED <<machineVars, componentVars, pipelineVars, splitVars, x_file>>

fallback_text == Text("fallback_text", FallbackChars)

\* .doc, no strategy took: the fallback text is built from the name of the
\* file and os.path.getsize(file_path), which raises for a file that is gone
DocFallback ==
    /\ x_pc = "fallback"
    /\ IF x_file.exists
       THEN x_result' = fallback_text /\ x_pc' = "returned"
       ELSE UNCHANGED x_result /\ x_pc' = "raised"
    /\ UNCHANGED <<machineVars, componentVars, pipelineVars, splitVars, x_file, x_log>>

\* any other extension
ExtractOther ==
    /\ x_pc = "run"
    /\ x_file.ext \notin {"txt", "pdf", "docx", "doc"}
    /\ x_result' = EmptyString
    /\ x_pc' = "returned"
    /\ UNCHANGED <<machineVars, componentVars, pipelineVars, splitVars, x_file, x_log>>

ExtractNext ==
    \/ ExtractTxt
    \/ TryPdf
    \/ TryDocx
    \/ TryDoc
    \/ DocFallback
    \/ ExtractOther

ExtractSpec == ExtractInit /\ [][ExtractNext]_vars

\* ---- claims about extract (ExtractSpec) ----

\* C17: extract returns a string and never raises, for every extension,
\* whether or not the file exists, and whatever the strategies do.
ExtractNeverRaises == x_pc # "raised"

IsPrefix(p, q) == Len(p) <= Len(q) /\ \A i \in 1..Len(p) : p[i] = q[i]

StrategiesTried == [i \in 1..Len(x_log) |-> x_log[i].strategy]

\* the strategy gave a text that strip() leaves longer than 100 characters
Over100(t) == ~t.gave.raises /\ t.gave.raw > 100

\* C18: for a .pdf, extract tries docling, PyMuPDF, pdfminer, PyPDF2,
\* tesseract and EasyOCR in this order, returns the text of the first
\* strategy whose stripped output is longer than 100 characters without
\* trying a later one, goes on alike after an exception and after a
\* shorter text, and returns "" when no strategy is sufficient.
PdfFirstSufficient ==
    x_file.ext = "pdf" =>
        /\ x_pc \in {"run", "returned"}
        /\ IsPrefix(StrategiesTried, PdfStrategies)
        /\ \A i \in 1..(Len(x_log) - 1) : ~Over100(x_log[i])
        /\ x_pc = "run" => Len(x_log) < Len(PdfStrategies)
                           /\ \A i \in 1..Len(x_log) : ~Over100(x_log[i])
        /\ x_pc = "returned" =>
              LET last == x_log[Len(x_log)]
              IN IF Over100(last)
                 THEN x_result = Text(last.strategy, last.gave.raw)
                 ELSE Len(x_log) = Len(PdfStrategies) /\ x_result = EmptyString

\* pdfminer's text was returned after docling raised and PyMuPDF gave too
\* little
PdfThirdStrategyTaken ==
    /\ x_file.ext = "pdf"
    /\ x_pc = "returned"
    /\ Len(x_log) = 3
    /\ x_log[1].gave.raises
    /\ ~x_log[2].gave.raises
    /\ x_result = Text("pdfminer", MinChars + 1)

\* C19: for a .doc, when every strategy fails or gives too little text,
\* extract returns the non-empty fallback text.
DocFallbackReturned ==
    x_file.ext = "doc" /\ Len(x_log) = Len(DocStrategies) /\ x_pc # "fallback"
       /\ (\A i \in 1..Len(x_log) : ~DocTakes(x_log[i].strategy, x_log[i].gave)) =>
        /\ x_pc = "returned"
        /\ x_result = fallback_text
        /\ x_result # EmptyString

(***************************************************************************)
(* LangchainSplitter.split.  A text is a run of blanks, a body that        *)
(* starts and ends with a non-blank character, and a run of blanks; a      *)
(* chunk is the slice [from, to) of the text, or a chunk made by the       *)
(* library splitter.                                                       *)
(***************************************************************************)

\* ---- bounds of the splitter model ----
MaxLibChunks == 2

\* LangchainSplitter(chunk_size=1000, chunk_overlap=200)
default_chunk_size == 1000

default_chunk_overlap == 200

Leads == {0, 3, 150}

Bodies == {0, 9, 10, 97, 100, 1500}

Trails == {0, 3, 900}

\* chunk_size=None, chunk_overlap=None
None == -1

ChunkSizes == {None, 120, 200}

ChunkOverlaps == {None, 0, 50, 120}

\* len(text), len(text.strip())
TextLen(t) == t.lead + t.body + t.trail

StrippedLen(t) == t.body

Slice(from, to) == [from |-> from, to |-> to, by |-> "slice"]

LibChunk(i) == [from |-> i, to |-> i, by |-> "library"]

\* [text]
Whole(t) == <<Slice(0, TextLen(t))>>

\* NotBlankSlice that keeps the blank windows too
NotBlankSliceAlways(t, c) == TRUE

\* chunk.strip() is not empty
NotBlankSlice(t, c) == t.body > 0 /\ c.from < t.lead + t.body /\ c.to > t.lead

Max(a, b) == IF a > b THEN a ELSE b

\* chunk_size or self.default_chunk_size: None and 0 give the default
OrDefault(arg, default) == IF arg = None \/ arg = 0 THEN default ELSE arg

\* the parameters after "Adjust chunk size for smaller texts"
Adjusted(t, given) ==
    IF TextLen(t) < given.chunk_size
    THEN LET size == Max(100, TextLen(t))
         IN [chunk_size |-> size, chunk_overlap |-> Min(20, size \div 5)]
    ELSE given

\* len(text) < 100
IsShort(t) == TextLen(t) < 100

\* IsTooShort with <= for <
IsTooShortInclusive(t) == StrippedLen(t) <= 10

\* len(text.strip()) < 10
IsTooShort(t) == StrippedLen(t) < 10

\* split(text, chunk_size, chunk_overlap) of LangchainSplitter()
SplitInit ==
    /\ MachineIdle
    /\ ComponentsIdle
    /\ PipelineIdle
    /\ ExtractIdle
    /\ s_text \in [lead : Leads, body : Bodies, trail : Trails]
    /\ s_args \in [chunk_size : ChunkSizes, chunk_overlap : ChunkOverlaps]
    /\ s_pc = "call"
    /\ s_params = [chunk_size |-> 0, chunk_overlap |-> 0]
    /\ s_result = <<>>

\* the code before the try: the early returns and the parameters
SplitCall ==
    /\ s_pc = "call"
    /\ LET given == [chunk_size |-> OrDefault(s_args.chunk_size, default_chunk_size),
                     chunk_overlap |-> OrDefault(s_args.chunk_overlap, default_chunk_overlap)]
       IN IF TextLen(s_text) = 0
          THEN s_result' = <<>> /\ s_pc' = "returned" /\ UNCHANGED s_params
          ELSE IF IsShort(s_text)
          THEN /\ s_result' = IF IsTooShort(s_text) THEN <<>> ELSE Whole(s_text)
               /\ s_pc' = "returned"
               /\ s_params' = given
          ELSE /\ s_params' = Adjusted(s_text, given)
               /\ s_pc' = "primary"
               /\ UNCHANGED s_result
    /\ UNCHANGED <<machineVars, componentVars, pipelineVars, extractVars, s_text, s_args>>

\* the try: language detection and RecursiveCharacterTextSplitter, which
\* raise or give any number of chunks
SplitPrimary ==
    /\ s_pc = "primary"
    /\ \/ s_pc' = "fallback" /\ UNCHANGED s_result
       \/ \E n \in 0..MaxLibChunks :
             /\ s_result' = IF n = 0 THEN Whole(s_text) ELSE [i \in 1..n |-> LibChunk(i)]
             /\ s_pc' = "returned"
    /\ UNCHANGED <<machineVars, componentVars, pipelineVars, extractVars, s_text, s_args, s_params>>

\* for i in range(0, len(text), step): text[i:min(i + chunk_size, len(text))]
Windows(t, size, step) ==
    IF step <= 0 THEN <<>>
    ELSE [k \in 1..((TextLen(t) - 1) \div step + 1) |->
             Slice((k - 1) * step, Min((k - 1) * step + size, TextLen(t)))]

\* the chunks of the fallback, before "if not simple_chunks"
simple_chunks(t, p) ==
    IF TextLen(t) <= p.chunk_size THEN Whole(t)
    ELSE LET kept(c) == NotBlankSlice(t, c)
         IN SelectSeq(Windows(t, p.chunk_size, p.chunk_size - p.chunk_overlap), kept)

\* range() raises ValueError for a step of zero
FallbackRaises(t, p) == TextLen(t) > p.chunk_size /\ p.chunk_size = p.chunk_overlap

\* the handler of the try: windows of chunk_size characters, and the text
\* itself when that fails too
SplitFallback ==
    /\ s_pc = "fallback"
    /\ s_result' = IF FallbackRaises(s_text, s_params)
                   THEN (IF StrippedLen(s_text) > 0 THEN Whole(s_text) ELSE <<>>)
                   ELSE IF simple_chunks(s_text, s_params) = <<>> THEN Whole(s_text)
                   ELSE simple_chunks(s_text, s_params)
    /\ s_pc' = "returned"
    /\ UNCHANGED <<machineVars, componentVars, pipelineVars, extractVars, s_text, s_args, s_params>>

SplitNext ==
    \/ SplitCall
    \/ SplitPrimary
    \/ SplitFallback

SplitSpec == SplitInit /\ [][SplitNext]_vars

\* ---- claims about split (SplitSpec) ----

\* C20: split returns [] for the empty text; for a text of fewer than 100
\* characters it returns [] when strip() leaves fewer than 10 characters
\* and [text] otherwise; for a text of 100 characters or more it never
\* raises and never returns the empty list.
SplitNeverEmpty ==
    /\ s_pc \in {"call", "primary", "fallback", "returned"}
    /\ s_pc = "returned" =>
          LET n == s_text.lead + s_text.body + s_text.trail
          IN /\ n = 0 => s_result = <<>>
             /\ n > 0 /\ n < 100 =>
                   s_result = IF s_text.body < 10 THEN <<>> ELSE <<Slice(0, n)>>
             /\ n >= 100 => s_result # <<>>

\* C20, amended: as above for the texts under 100 characters; a text of
\* 100 characters or more never raises, gives a non-empty list when it has
\* a non-blank character, and gives [] only when it is blank and the window
\* loop of the fallback failed too (chunk_size = chunk_overlap).
SplitNeverEmptyUsable ==
    /\ s_pc \in {"call", "primary", "fallback", "returned"}
    /\ s_pc = "returned" =>
          LET n == s_text.lead + s_text.body + s_text.trail
          IN /\ n = 0 => s_result = <<>>
             /\ n > 0 /\ n < 100 =>
                   s_result = IF s_text.body < 10 THEN <<>> ELSE <<Slice(0, n)>>
             /\ n >= 100 /\ s_text.body > 0 => s_result # <<>>
             /\ n >= 100 /\ s_result = <<>> =>
                   /\ s_text.body = 0
                   /\ n > s_params.chunk_size
                   /\ s_params.chunk_size = s_params.chunk_overlap

\* a blank text of 100 characters or more came back as no chunks
BlankTextNoChunks ==
    /\ s_pc = "returned"
    /\ TextLen(s_text) >= 100
    /\ s_text.body = 0
    /\ s_result = <<>>

\* C21: split shrinks chunk_size and chunk_overlap for a text shorter than
\* chunk_size only when the caller did not pass them: a value the caller
\* passed (chunk_overlap = 0 included) is the value used for splitting.
ExplicitArgsUsed ==
    s_pc \in {"primary", "fallback"} =>
       /\ s_args.chunk_size # None => s_params.chunk_size = s_args.chunk_size
       /\ s_args.chunk_overlap # None => s_params.chunk_overlap = s_args.chunk_overlap

\* the positions of the text that some chunk of r holds
Covered(r) == {q \in 0..(TextLen(s_text) - 1) :
                  \E i \in 1..Len(r) : r[i].from <= q /\ q < r[i].to}

\* C22: when the primary splitter raised, the fallback gives windows of at
\* most chunk_size characters whose starts are chunk_size - chunk_overlap
\* apart and which cover every character of the text; when no window is
\* produced or the window loop fails (chunk_overlap >= chunk_size) the
\* result is [text].
FallbackWindowsCoverText ==
    [][SplitFallback =>
         LET r == s_result'
             n == TextLen(s_text)
             size == s_params.chunk_size
             step == s_params.chunk_size - s_params.chunk_overlap
         IN IF n <= size \/ step <= 0 THEN r = Whole(s_text)
            ELSE \/ r = Whole(s_text)
                 \/ /\ r # <<>>
                    /\ \A i \in 1..Len(r) : r[i].to - r[i].from <= size
                    /\ \A i \in 1..(Len(r) - 1) : r[i + 1].from - r[i].from = step
                    /\ Covered(r) = 0..(n - 1)]_vars

\* C22, amended: the fallback gives [text] for a text of at most chunk_size
\* characters; otherwise its windows start at multiples of chunk_size -
\* chunk_overlap, hold at most chunk_size characters, and the blank ones
\* are dropped, so that they cover every non-blank character; when no
\* window is kept the result is [text]; when the loop fails (chunk_size =
\* chunk_overlap) the result is [text] for a text with a non-blank
\* character and [] for a blank one.
FallbackWindowsCoverBody ==
    [][SplitFallback =>
         LET r == s_result'
             n == TextLen(s_text)
             size == s_params.chunk_size
             step == s_params.chunk_size - s_params.chunk_overlap
             body == s_text.lead..(s_text.lead + s_text.body - 1)
         IN IF n <= size \/ step < 0 THEN r = Whole(s_text)
            ELSE IF step = 0
            THEN r = IF s_text.body > 0 THEN Whole(s_text) ELSE <<>>
            ELSE IF s_text.body = 0 THEN r = Whole(s_text)
            ELSE /\ r # <<>>
                 /\ \A i \in 1..Len(r) :
                       /\ r[i].to - r[i].from <= size
                       /\ r[i].from % step = 0
                       /\ r[i].to = Min(r[i].from + size, n)
                       /\ \E q \in body : r[i].from <= q /\ q < r[i].to
                 /\ \A i \in 1..(Len(r) - 1) : r[i].from < r[i + 1].from
                 /\ body \subseteq Covered(r)]_vars

\* the fallback dropped a blank window and kept the others
BlankWindowDropped ==
    /\ s_pc = "returned"
    /\ Len(s_result) >= 2
    /\ \A i \in 1..Len(s_result) : s_result[i].by = "slice"
    /\ Covered(s_result) # 0..(TextLen(s_text) - 1)

(***************************************************************************)
(* OpenAIEmbeddingGenerator.generate.  A vector is named by the chunk it   *)
(* was computed from, by how it was made, and by its number of elements.   *)
(***************************************************************************)

ChunkTexts == {"chunk a", "chunk b", "chunk c"}

EmbedChunks == UNION {[1..n -> ChunkTexts] : n \in 0..MaxChunks}

\* [0.0] * 1536, and the length of a text-embedding-ada-002 vector
Dimensions == 1536

Vector(chunk, how) == [of |-> chunk, how |-> how, dims |-> Dimensions]

\* [0.0] * 1536
ZeroVector == [of |-> "", how |-> "zeros", dims |-> Dimensions]

\* _generate_mock_embeddings: one normalised vector per chunk, seeded by
\* hash(chunk)
generate_mock_embeddings(chunks) == [i \in 1..Len(chunks) |-> Vector(chunks[i], "mock")]

notEmbedVars == <<machineVars, pipelineVars, extractVars, splitVars, indexVars, schemaVars,
                   filterVars, graphVars, langVars, otherVars>>

NotEmbedIdle ==
    /\ MachineIdle /\ PipelineIdle /\ ExtractIdle /\ SplitIdle
    /\ IndexIdle /\ SchemaIdle /\ FilterIdle /\ GraphIdle /\ LangIdle /\ OthersIdle

EmbedInit ==
    /\ NotEmbedIdle
    /\ g_chunks \in EmbedChunks
    /\ g_env \in [testing : BOOLEAN, api_key : BOOLEAN]
    /\ g_pc = "call"
    /\ g_calls = <<>>
    /\ g_all = <<>>
    /\ g_result = <<>>

\* generate, and _generate_real_embeddings up to the loop
GenerateCall ==
    /\ g_pc = "call"
    /\ IF g_chunks = <<>>
       THEN g_result' = <<>> /\ g_pc' = "returned"
       ELSE IF g_env.testing
       THEN g_result' = generate_mock_embeddings(g_chunks) /\ g_pc' = "returned"
       ELSE IF ~g_env.api_key
       THEN g_pc' = "raised" /\ UNCHANGED g_result
       ELSE g_pc' = "loop" /\ UNCHANGED g_result
    /\ UNCHANGED <<notEmbedVars, g_chunks, g_env, g_calls, g_all>>

\* AddZeros that puts the zero vector first
AddZerosFirst(all) == <<ZeroVector>> \o all

\* all_embeddings.append([0.0] * 1536)
AddZeros(all) == Append(all, ZeroVector)

\* one chunk of one batch: the batches are consecutive slices of chunks, so
\* the chunks are met in list order
GenerateChunk ==
    /\ g_pc = "loop"
    /\ Len(g_calls) < Len(g_chunks)
    /\ \E worked \in BOOLEAN :
          /\ g_calls' = Append(g_calls, worked)
          /\ g_all' = IF worked
                      THEN Append(g_all, Vector(g_chunks[Len(g_calls) + 1], "openai"))
                      ELSE AddZeros(g_all)
    /\ UNCHANGED <<notEmbedVars, g_chunks, g_env, g_pc, g_result>>

\* after the loop: the length test and the return
GenerateReturn ==
    /\ g_pc = "loop"
    /\ Len(g_calls) = Len(g_chunks)
    /\ IF Len(g_all) # Len(g_chunks)
       THEN g_pc' = "raised" /\ UNCHANGED g_result
       ELSE g_pc' = "returned" /\ g_result' = g_all
    /\ UNCHANGED <<notEmbedVars, g_chunks, g_env, g_calls, g_all>>

EmbedNext ==
    \/ GenerateCall
    \/ GenerateChunk
    \/ GenerateReturn

EmbedSpec == EmbedInit /\ [][EmbedNext]_vars

\* ---- claims about generate (EmbedSpec) ----

\* C23: when generate returns for a non-empty list of chunks, in the mock
\* path or the real one, the result has one vector per chunk in the order
\* of the chunks; in the real path a chunk whose call failed has the vector
\* of 1536 zeros at its own position and the other chunks keep theirs.
SameLengthAndOrder ==
    g_pc = "returned" /\ g_chunks # <<>> =>
       /\ Len(g_result) = Len(g_chunks)
       /\ \A i \in 1..Len(g_chunks) :
             g_result[i] =
                IF g_env.testing THEN Vector(g_chunks[i], "mock")
                ELSE IF g_calls[i] THEN Vector(g_chunks[i], "openai")
                ELSE [of |-> "", how |-> "zeros", dims |-> 1536]

\* a call failed for the first chunk and worked for a later one
FirstCallFailed ==
    /\ g_pc = "returned"
    /\ Len(g_calls) >= 2
    /\ ~g_calls[1]
    /\ g_calls[2]

(***************************************************************************)
(* ChromaIndexer.index.  A metadata dict is a function from its keys to    *)
(* values; a value carries its Python type.                                *)
(***************************************************************************)

StrValue(v) == [type |-> "str", str |-> v, int |-> 0]

IntValue(n) == [type |-> "int", str |-> "", int |-> n]

NoneValue == [type |-> "NoneType", str |-> "None", int |-> 0]

\* the metadata dict process_document builds (document_service.py:88-95)
Metadatas ==
    {[document_id |-> StrValue("doc-1"), name |-> StrValue("report"),
      file_path |-> StrValue("media/report.pdf"), file_type |-> ft,
      folder_id |-> f[1], folder_path |-> f[2]] :
        ft \in {StrValue("application/pdf"), NoneValue},
        f \in {<<NoneValue, StrValue("Documents")>>, <<StrValue("folder-1"), StrValue("Documents/2024")>>}}

IndexVectors == {Vector("chunk a", "openai"), ZeroVector}

IndexEmbeddings == UNION {[1..n -> IndexVectors] : n \in 0..MaxChunks}

StoreOutcomes == {"works", "no collection", "add fails"}

\* clean_metadata that keeps the None values
clean_metadata_keep_none(metadata) == metadata

\* _clean_metadata: None values dropped, str/int/float/bool kept, the rest
\* turned into str(value)
clean_metadata(metadata) ==
    [k \in {j \in DOMAIN metadata : metadata[j].type # "NoneType"} |->
        IF metadata[k].type \in {"str", "int", "float", "bool"}
        THEN metadata[k]
        ELSE StrValue(metadata[k].str)]

\* path.replace('/', '_')
Underscored(path) ==
    CASE path = "media/report.pdf" -> "media_report.pdf"
      [] OTHER -> path

\* metadata.get('document_id', ''), or the file path when that is empty
doc_id_of(metadata) ==
    IF "document_id" \in DOMAIN metadata /\ metadata["document_id"].str # ""
       /\ metadata["document_id"].type # "NoneType"
    THEN metadata["document_id"].str
    ELSE IF "file_path" \in DOMAIN metadata
    THEN Underscored(metadata["file_path"].str)
    ELSE "unknown"

\* f"{doc_id}_chunk_{i}"
ChunkId(doc, i) == [doc |-> doc, chunk |-> i]

\* chunk_ids that counts the chunks from 1
chunk_ids_from_one(doc, n) == [i \in 1..n |-> ChunkId(doc, i)]

\* [f"{doc_id}_chunk_{i}" for i in range(n)]
chunk_ids(doc, n) == [i \in 1..n |-> ChunkId(doc, i - 1)]

\* cleaned_metadata.copy() with chunk_index and chunk_count set
chunk_metadata(cleaned, i, count) ==
    [k \in DOMAIN cleaned \cup {"chunk_index", "chunk_count"} |->
        IF k = "chunk_index" THEN IntValue(i)
        ELSE IF k = "chunk_count" THEN IntValue(count)
        ELSE cleaned[k]]

Prefix(list, n) == SubSeq(list, 1, n)

notIndexVars == <<machineVars, pipelineVars, extractVars, splitVars, embedVars, schemaVars,
                   filterVars, graphVars, langVars, otherVars>>

NotIndexIdle ==
    /\ MachineIdle /\ PipelineIdle /\ ExtractIdle /\ SplitIdle
    /\ EmbedIdle /\ SchemaIdle /\ FilterIdle /\ GraphIdle /\ LangIdle /\ OthersIdle

IndexInit ==
    /\ NotIndexIdle
    /\ i_args \in [chunks : EmbedChunks, embeddings : IndexEmbeddings, metadata : Metadatas]
    /\ i_store \in StoreOutcomes
    /\ i_chunks = i_args.chunks
    /\ i_embeddings = i_args.embeddings
    /\ i_pc = "call"
    /\ i_added = <<>>
    /\ i_result = <<>>

\* the code before the try: the early returns and the truncation
IndexCall ==
    /\ i_pc = "call"
    /\ IF i_chunks = <<>>
       THEN /\ i_result' = <<>>
            /\ i_pc' = "returned"
            /\ UNCHANGED <<i_chunks, i_embeddings>>
       ELSE IF i_embeddings = <<>>
       THEN /\ i_result' = chunk_ids(doc_id_of(i_args.metadata), Len(i_chunks))
            /\ i_pc' = "returned"
            /\ UNCHANGED <<i_chunks, i_embeddings>>
       ELSE /\ i_chunks' = IF Len(i_chunks) > Len(i_embeddings)
                           THEN Prefix(i_chunks, Len(i_embeddings)) ELSE i_chunks
            /\ i_embeddings' = IF Len(i_chunks) < Len(i_embeddings)
                               THEN Prefix(i_embeddings, Len(i_chunks)) ELSE i_embeddings
            /\ i_pc' = "try"
            /\ UNCHANGED i_result
    /\ UNCHANGED <<notIndexVars, i_args, i_store, i_added>>

\* the try: the ids and the metadata of each chunk, one collection.add for
\* all of them, and [] when anything raised
IndexStore ==
    /\ i_pc = "try"
    /\ LET cleaned == clean_metadata(i_args.metadata)
           ids == chunk_ids(doc_id_of(i_args.metadata), Len(i_chunks))
           entries == [i \in 1..Len(i_chunks) |->
                          [id |-> ids[i],
                           embedding |-> i_embeddings[i],
                           document |-> i_chunks[i],
                           metadata |-> chunk_metadata(cleaned, i - 1, Len(i_chunks))]]
       IN /\ i_added' = IF i_store = "no collection" THEN <<>> ELSE entries
          /\ i_result' = IF i_store = "works" THEN ids ELSE <<>>
    /\ i_pc' = "returned"
    /\ UNCHANGED <<notIndexVars, i_args, i_store, i_chunks, i_embeddings>>

IndexNext ==
    \/ IndexCall
    \/ IndexStore

IndexSpec == IndexInit /\ [][IndexNext]_vars

\* ---- claims about index (IndexSpec) ----

\* C24: index never raises; for chunks and no embeddings it calls the
\* store for nothing and returns the len(chunks) ids
\* {document_id}_chunk_{i}, i = 0..len(chunks)-1.
NoEmbeddingsStillIds ==
    /\ i_pc # "raised"
    /\ i_pc = "returned" /\ i_args.chunks # <<>> /\ i_args.embeddings = <<>> =>
          /\ i_added = <<>>
          /\ Len(i_result) = Len(i_args.chunks)
          /\ \A i \in 1..Len(i_result) :
                i_result[i] = [doc |-> i_args.metadata.document_id.str, chunk |-> i - 1]

\* two chunks came without embeddings
TwoChunksNoEmbeddings ==
    /\ i_pc = "returned"
    /\ Len(i_args.chunks) = 2
    /\ i_args.embeddings = <<>>

\* C25: for chunks and embeddings of different lengths, the write index
\* makes has min(len(chunks), len(embeddings)) entries; entry i pairs chunk
\* i with embedding i and has chunk_index = i and chunk_count = that
\* minimum; no stored metadata has a key whose value was None.
MismatchTruncated ==
    i_pc = "returned" /\ i_args.chunks # <<>> /\ i_args.embeddings # <<>>
    /\ Len(i_args.chunks) # Len(i_args.embeddings) /\ i_store # "no collection" =>
       LET n == Min(Len(i_args.chunks), Len(i_args.embeddings))
       IN /\ Len(i_added) = n
          /\ \A i \in 1..n :
                /\ i_added[i].document = i_args.chunks[i]
                /\ i_added[i].embedding = i_args.embeddings[i]
                /\ i_added[i].metadata["chunk_index"] = IntValue(i - 1)
                /\ i_added[i].metadata["chunk_count"] = IntValue(n)
                /\ \A k \in DOMAIN i_args.metadata :
                      IF i_args.metadata[k].type = "NoneType"
                      THEN k \notin DOMAIN i_added[i].metadata
                      ELSE /\ k \in DOMAIN i_added[i].metadata
                           /\ i_added[i].metadata[k] = i_args.metadata[k]

\* two chunks, one embedding, a document without folder: one entry written
ChunksTruncated ==
    /\ i_pc = "returned"
    /\ Len(i_args.chunks) = 2
    /\ Len(i_args.embeddings) = 1
    /\ i_args.metadata.folder_id = NoneValue
    /\ Len(i_added) = 1
    /\ i_result # <<>>

(***************************************************************************)
(* SchemaManager.normalize_entity_type and normalize_relationship_type.    *)
(* A string is the sequence of its characters.                             *)
(***************************************************************************)

UpperCase == <<"A", "B", "C", "D", "E", "F", "G", "H", "I", "J", "K", "L", "M", "N", "O", "P", "Q", "R", "S", "T", "U", "V", "W", "X", "Y", "Z">>

LowerCase == <<"a", "b", "c", "d", "e", "f", "g", "h", "i", "j", "k", "l", "m", "n", "o", "p", "q", "r", "s", "t", "u", "v", "w", "x", "y", "z">>

\* the position of character c in the alphabet letters, 0 when it is not there
Position(c, letters) ==
    IF \E i \in 1..Len(letters) : letters[i] = c
    THEN CHOOSE i \in 1..Len(letters) : letters[i] = c
    ELSE 0

\* str.lower()
lower(str) == [i \in 1..Len(str) |->
                  IF Position(str[i], UpperCase) > 0
                  THEN LowerCase[Position(str[i], UpperCase)] ELSE str[i]]

\* str.upper()
upper(str) == [i \in 1..Len(str) |->
                  IF Position(str[i], LowerCase) > 0
                  THEN UpperCase[Position(str[i], LowerCase)] ELSE str[i]]

\* str.strip()
strip(str) ==
    LET inked == {i \in 1..Len(str) : str[i] # " "}
    IN IF inked = {} THEN <<>>
       ELSE SubSeq(str, CHOOSE i \in inked : \A j \in inked : i <= j,
                        CHOOSE i \in inked : \A j \in inked : i >= j)

\* partial_match that looks at the start of the string only
partial_match_at_start(synonym, str) ==
    Len(synonym) <= Len(str) /\ SubSeq(str, 1, Len(synonym)) = synonym

\* synonym in str
partial_match(synonym, str) ==
    \E i \in 0..(Len(str) - Len(synonym)) : SubSeq(str, i + 1, i + Len(synonym)) = synonym

ENTITY_TYPES == <<
    [main |-> <<"P", "e", "r", "s", "o", "n">>,
     synonyms |-> <<
        <<"p", "e", "r", "s", "o", "n">>,
        <<"i", "n", "d", "i", "v", "i", "d", "u", "a", "l">>,
        <<"p", "e", "o", "p", "l", "e">>,
        <<"h", "u", "m", "a", "n">>
     >>],
    [main |-> <<"O", "r", "g", "a", "n", "i", "z", "a", "t", "i", "o", "n">>,
     synonyms |-> <<
        <<"o", "r", "g", "a", "n", "i", "z", "a", "t", "i", "o", "n">>,
        <<"c", "o", "m", "p", "a", "n", "y">>,
        <<"c", "o", "r", "p", "o", "r", "a", "t", "i", "o", "n">>,
        <<"i", "n", "s", "t", "i", "t", "u", "t", "i", "o", "n">>,
        <<"a", "g", "e", "n", "c", "y">>,
        <<"f", "i", "r", "m">>
     >>],
    [main |-> <<"L", "o", "c", "a", "t", "i", "o", "n">>,
     synonyms |-> <<
        <<"l", "o", "c", "a", "t", "i", "o", "n">>,
        <<"p", "l", "a", "c", "e">>,
        <<"c", "o", "u", "n", "t", "r", "y">>,
        <<"c", "i", "t", "y">>,
        <<"r", "e", "g", "i", "o", "n">>,
        <<"a", "r", "e", "a">>,
        <<"t", "e", "r", "r", "i", "t", "o", "r", "y">>
     >>],
    [main |-> <<"E", "v", "e", "n", "t">>,
     synonyms |-> <<
        <<"e", "v", "e", "n", "t">>,
        <<"o", "c", "c", "u", "r", "r", "e", "n", "c", "e">>,
        <<"h", "a", "p", "p", "e", "n", "i", "n", "g">>,
        <<"i", "n", "c", "i", "d", "e", "n", "t">>
     >>],
    [main |-> <<"D", "a", "t", "e">>,
     synonyms |-> <<
        <<"d", "a", "t", "e">>,
        <<"t", "i", "m", "e">>,
        <<"p", "e", "r", "i", "o", "d">>,
        <<"y", "e", "a", "r">>,
        <<"m", "o", "n", "t", "h">>,
        <<"d", "a", "y">>
     >>],
    [main |-> <<"T", "e", "c", "h", "n", "o", "l", "o", "g", "y">>,
     synonyms |-> <<
        <<"t", "e", "c", "h", "n", "o", "l", "o", "g", "y">>,
        <<"t", "e", "c", "h">>,
        <<"a", "p", "p", "l", "i", "c", "a", "t", "i", "o", "n">>,
        <<"s", "y", "s", "t", "e", "m">>,
        <<"p", "l", "a", "t", "f", "o", "r", "m">>,
        <<"s", "o", "f", "t", "w", "a", "r", "e">>,
        <<"h", "a", "r", "d", "w", "a", "r", "e">>
     >>],
    [main |-> <<"C", "o", "n", "c", "e", "p", "t">>,
     synonyms |-> <<
        <<"c", "o", "n", "c", "e", "p", "t">>,
        <<"i", "d", "e", "a">>,
        <<"t", "h", "e", "o", "r", "y">>,
        <<"n", "o", "t", "i", "o", "n">>,
        <<"p", "r", "i", "n", "c", "i", "p", "l", "e">>
     >>],
    [main |-> <<"P", "r", "o", "d", "u", "c", "t">>,
     synonyms |-> <<
        <<"p", "r", "o", "d", "u", "c", "t">>,
        <<"g", "o", "o", "d", "s">>,
        <<"s", "e", "r", "v", "i", "c", "e">>,
        <<"o", "f", "f", "e", "r", "i", "n", "g">>
     >>],
    [main |-> <<"T", "o", "p", "i", "c">>,
     synonyms |-> <<
        <<"t", "o", "p", "i", "c">>,
        <<"s", "u", "b", "j", "e", "c", "t">>,
        <<"t", "h", "e", "m", "e">>,
        <<"f", "i", "e", "l", "d">>
     >>],
    [main |-> <<"D", "o", "c", "u", "m", "e", "n", "t">>,
     synonyms |-> <<
        <<"d", "o", "c", "u", "m", "e", "n", "t">>,
        <<"f", "i", "l", "e">>,
        <<"r", "e", "p", "o", "r", "t">>,
        <<"p", "a", "p", "e", "r">>,
        <<"p", "u", "b", "l", "i", "c", "a", "t", "i", "o", "n">>
     >>]
>>

RELATIONSHIP_TYPES == <<
    [main |-> <<"R", "E", "L", "A", "T", "E", "D", "_", "T", "O">>,
     synonyms |-> <<
        <<"r", "e", "l", "a", "t", "e", "d", " ", "t", "o">>,
        <<"a", "s", "s", "o", "c", "i", "a", "t", "e", "d", " ", "w", "i", "t", "h">>,
        <<"c", "o", "n", "n", "e", "c", "t", "e", "d", " ", "t", "o">>,
        <<"l", "i", "n", "k", "e", "d", " ", "t", "o">>
     >>],
    [main |-> <<"P", "A", "R", "T", "_", "O", "F">>,
     synonyms |-> <<
        <<"p", "a", "r", "t", " ", "o", "f">>,
        <<"b", "e", "l", "o", "n", "g", "s", " ", "t", "o">>,
        <<"m", "e", "m", "b", "e", "r", " ", "o", "f">>,
        <<"c", "o", "m", "p", "o", "n", "e", "n", "t", " ", "o", "f">>,
        <<"e", "l", "e", "m", "e", "n", "t", " ", "o", "f">>
     >>],
    [main |-> <<"C", "R", "E", "A", "T", "E", "D">>,
     synonyms |-> <<
        <<"c", "r", "e", "a", "t", "e", "d">>,
        <<"d", "e", "v", "e", "l", "o", "p", "e", "d">>,
        <<"p", "r", "o", "d", "u", "c", "e", "d">>,
        <<"m", "a", "d", "e">>,
        <<"b", "u", "i", "l", "t">>,
        <<"d", "e", "s", "i", "g", "n", "e", "d">>
     >>],
    [main |-> <<"L", "O", "C", "A", "T", "E", "D", "_", "I", "N">>,
     synonyms |-> <<
        <<"l", "o", "c", "a", "t", "e", "d", " ", "i", "n">>,
        <<"b", "a", "s", "e", "d", " ", "i", "n">>,
        <<"s", "i", "t", "u", "a", "t", "e", "d", " ", "i", "n">>,
        <<"f", "o", "u", "n", "d", " ", "i", "n">>
     >>],
    [main |-> <<"W", "O", "R", "K", "S", "_", "F", "O", "R">>,
     synonyms |-> <<
        <<"w", "o", "r", "k", "s", " ", "f", "o", "r">>,
        <<"e", "m", "p", "l", "o", "y", "e", "d", " ", "b", "y">>,
        <<"s", "t", "a", "f", "f", " ", "o", "f">>,
        <<"p", "e", "r", "s", "o", "n", "n", "e", "l", " ", "o", "f">>
     >>],
    [main |-> <<"O", "W", "N", "E", "D", "_", "B", "Y">>,
     synonyms |-> <<
        <<"o", "w", "n", "e", "d", " ", "b", "y">>,
        <<"b", "e", "l", "o", "n", "g", "s", " ", "t", "o">>,
        <<"p", "r", "o", "p", "e", "r", "t", "y", " ", "o", "f">>,
        <<"p", "o", "s", "s", "e", "s", "s", "i", "o", "n", " ", "o", "f">>
     >>],
    [main |-> <<"K", "N", "O", "W", "S">>,
     synonyms |-> <<
        <<"k", "n", "o", "w", "s">>,
        <<"f", "a", "m", "i", "l", "i", "a", "r", " ", "w", "i", "t", "h">>,
        <<"a", "c", "q", "u", "a", "i", "n", "t", "e", "d", " ", "w", "i", "t", "h">>,
        <<"a", "s", "s", "o", "c", "i", "a", "t", "e", "d", " ", "w", "i", "t", "h">>
     >>],
    [main |-> <<"H", "A", "P", "P", "E", "N", "E", "D", "_", "O", "N">>,
     synonyms |-> <<
        <<"h", "a", "p", "p", "e", "n", "e", "d", " ", "o", "n">>,
        <<"o", "c", "c", "u", "r", "r", "e", "d", " ", "o", "n">>,
        <<"t", "o", "o", "k", " ", "p", "l", "a", "c", "e", " ", "o", "n">>
     >>],
    [main |-> <<"R", "E", "F", "E", "R", "S", "_", "T", "O">>,
     synonyms |-> <<
        <<"r", "e", "f", "e", "r", "s", " ", "t", "o">>,
        <<"m", "e", "n", "t", "i", "o", "n", "s">>,
        <<"c", "i", "t", "e", "s">>,
        <<"d", "i", "s", "c", "u", "s", "s", "e", "s">>,
        <<"d", "e", "s", "c", "r", "i", "b", "e", "s">>
     >>],
    [main |-> <<"U", "S", "E", "S">>,
     synonyms |-> <<
        <<"u", "s", "e", "s">>,
        <<"u", "t", "i", "l", "i", "z", "e", "s">>,
        <<"e", "m", "p", "l", "o", "y", "s">>,
        <<"l", "e", "v", "e", "r", "a", "g", "e", "s">>,
        <<"a", "p", "p", "l", "i", "e", "s">>
     >>]
>>

\* the main type of the first entry of the table, in dict order, that hit
\* accepts; none when no entry does
FirstMain(types, hit(_), none) ==
    IF \E i \in 1..Len(types) : hit(types[i])
    THEN types[CHOOSE i \in 1..Len(types) :
                  hit(types[i]) /\ \A j \in 1..(i - 1) : ~hit(types[j])].main
    ELSE none

HasSynonym(entry, test(_)) == \E i \in 1..Len(entry.synonyms) : test(entry.synonyms[i])

normalize_entity_type(entity_type) ==
    LET t == strip(lower(entity_type))
        direct(entry) == t = lower(entry.main)
        same(synonym) == synonym = t
        exact(entry) == HasSynonym(entry, same)
        inside(synonym) == partial_match(synonym, t)
        partial(entry) == HasSynonym(entry, inside)
    IN IF FirstMain(ENTITY_TYPES, direct, <<>>) # <<>>
       THEN FirstMain(ENTITY_TYPES, direct, <<>>)
       ELSE IF FirstMain(ENTITY_TYPES, exact, <<>>) # <<>>
       THEN FirstMain(ENTITY_TYPES, exact, <<>>)
       ELSE FirstMain(ENTITY_TYPES, partial, <<"C", "o", "n", "c", "e", "p", "t">>)

normalize_relationship_type(relationship_type) ==
    LET t == strip(upper(relationship_type))
        t_lower == lower(t)
        direct(entry) == t = entry.main
        same(synonym) == synonym = t_lower
        exact(entry) == HasSynonym(entry, same)
        inside(synonym) == partial_match(synonym, t_lower)
        partial(entry) == HasSynonym(entry, inside)
    IN IF FirstMain(RELATIONSHIP_TYPES, direct, <<>>) # <<>>
       THEN FirstMain(RELATIONSHIP_TYPES, direct, <<>>)
       ELSE IF FirstMain(RELATIONSHIP_TYPES, exact, <<>>) # <<>>
       THEN FirstMain(RELATIONSHIP_TYPES, exact, <<>>)
       ELSE FirstMain(RELATIONSHIP_TYPES, partial, <<"R", "E", "L", "A", "T", "E", "D", "_", "T", "O">>)

normalize(kind, t) ==
    IF kind = "entity" THEN normalize_entity_type(t) ELSE normalize_relationship_type(t)

\* the type strings tried
TypeStrings == {
    <<>>,
    <<"f", "o", "o">>,
    <<"P", "e", "r", "s", "o", "n">>,
    <<" ", "P", "E", "R", "S", "O", "N", " ">>,
    <<"p", "e", "r", "s", "o", "n">>,
    <<"c", "o", "m", "p", "a", "n", "y">>,
    <<"B", "i", "g", " ", "C", "o", "m", "p", "a", "n", "y">>,
    <<"t", "e", "c", "h", " ", "c", "o", "m", "p", "a", "n", "y">>,
    <<"t", "i", "m", "e", "l", "i", "n", "e">>,
    <<"R", "E", "L", "A", "T", "E", "D", "_", "T", "O">>,
    <<"r", "e", "l", "a", "t", "e", "d", "_", "t", "o">>,
    <<"w", "o", "r", "k", "s", " ", "f", "o", "r">>,
    <<"W", "O", "R", "K", "S", " ", "F", "O", "R">>,
    <<"W", "o", "r", "k", "s", "_", "F", "o", "r">>,
    <<"b", "e", "l", "o", "n", "g", "s", " ", "t", "o">>,
    <<"i", "s", " ", "p", "a", "r", "t", " ", "o", "f">>,
    <<"e", "m", "p", "l", "o", "y", "s">>,
    <<"a", "s", "s", "o", "c", "i", "a", "t", "e", "d", " ", "w", "i", "t", "h">>,
    <<"T", "e", "c", "h", "n", "o", "l", "o", "g", "y">>,
    <<"C", "o", "n", "c", "e", "p", "t">>,
    <<"U", "S", "E", "S">>,
    <<" ", "u", "s", "e", "s", " ">>,
    <<"T", "o", "p", "i", "c">>,
    <<"r", "e", "p", "o", "r", "t">>,
    <<"a", "n", "n", "u", "a", "l", " ", "r", "e", "p", "o", "r", "t">>,
    <<"K", "N", "O", "W", "S">>,
    <<"H", "A", "P", "P", "E", "N", "E", "D", "_", "O", "N">>,
    <<"t", "o", "o", "k", " ", "p", "l", "a", "c", "e", " ", "o", "n">>,
    <<"O", "w", "n", "e", "d", "_", "B", "y">>,
    <<"m", "y", " ", "i", "d", "e", "a">>
}

notSchemaVars == <<machineVars, pipelineVars, extractVars, splitVars, embedVars, indexVars,
                    filterVars, graphVars, langVars, otherVars>>

NotSchemaIdle ==
    /\ MachineIdle /\ PipelineIdle /\ ExtractIdle /\ SplitIdle
    /\ EmbedIdle /\ IndexIdle /\ FilterIdle /\ GraphIdle /\ LangIdle /\ OthersIdle

\* the synonyms a table lists
ListedSynonyms(types) ==
    UNION {{types[i].synonyms[j] : j \in 1..Len(types[i].synonyms)} : i \in 1..Len(types)}

SchemaInit ==
    /\ NotSchemaIdle
    /\ n_kind \in {"entity", "relationship"}
    /\ n_in \in TypeStrings \cup ListedSynonyms(ENTITY_TYPES) \cup ListedSynonyms(RELATIONSHIP_TYPES)
    /\ n_pc = "call"
    /\ n_once = <<>>
    /\ n_twice = <<>>

\* normalize(t)
Normalize ==
    /\ n_pc = "call"
    /\ n_once' = normalize(n_kind, n_in)
    /\ n_pc' = "once"
    /\ UNCHANGED <<notSchemaVars, n_kind, n_in, n_twice>>

\* normalize(normalize(t))
NormalizeAgain ==
    /\ n_pc = "once"
    /\ n_twice' = normalize(n_kind, n_once)
    /\ n_pc' = "twice"
    /\ UNCHANGED <<notSchemaVars, n_kind, n_in, n_once>>

SchemaNext ==
    \/ Normalize
    \/ NormalizeAgain

SchemaSpec == SchemaInit /\ [][SchemaNext]_vars

\* ---- claims about the normalizers (SchemaSpec) ----

\* the canonical types of a table
MainTypes(types) == {types[i].main : i \in 1..Len(types)}

\* the entries of a table one of whose synonyms is str / occurs in str
WithSynonym(types, str) ==
    {i \in 1..Len(types) : \E j \in 1..Len(types[i].synonyms) : types[i].synonyms[j] = str}

WithSynonymIn(types, str) ==
    {i \in 1..Len(types) : \E j \in 1..Len(types[i].synonyms) :
        \E a \in 1..(Len(str) + 1), b \in 0..Len(str) : SubSeq(str, a, b) = types[i].synonyms[j]}

Lowest(set) == CHOOSE i \in set : \A j \in set : i <= j

\* C26: normalize_entity_type and normalize_relationship_type give one of
\* the 10 canonical types for every string, and the same type when applied
\* to their own result; the type is the canonical name the string equals
\* without regard to case, else the first type with the string as a
\* synonym, else the first type with a synonym inside the string, else
\* 'Concept' for entities and 'RELATED_TO' for relationships.
NormalizeIdempotent ==
    n_pc \in {"once", "twice"} =>
       LET types == IF n_kind = "entity" THEN ENTITY_TYPES ELSE RELATIONSHIP_TYPES
           t == strip(lower(n_in))
           named == {i \in 1..Len(types) : lower(types[i].main) = t}
       IN /\ Cardinality(MainTypes(types)) = 10
          /\ n_once \in MainTypes(types)
          /\ n_pc = "twice" => n_twice = n_once
          /\ n_once =
                IF named # {} THEN types[Lowest(named)].main
                ELSE IF WithSynonym(types, t) # {}
                THEN types[Lowest(WithSynonym(types, t))].main
                ELSE IF WithSynonymIn(types, t) # {}
                THEN types[Lowest(WithSynonymIn(types, t))].main
                ELSE IF n_kind = "entity" THEN <<"C", "o", "n", "c", "e", "p", "t">>
                ELSE <<"R", "E", "L", "A", "T", "E", "D", "_", "T", "O">>

\* a string with a synonym inside it was normalized twice
SubstringNormalizedTwice ==
    /\ n_pc = "twice"
    /\ n_kind = "entity"
    /\ n_in = <<"B", "i", "g", " ", "C", "o", "m", "p", "a", "n", "y">>
    /\ n_once = <<"O", "r", "g", "a", "n", "i", "z", "a", "t", "i", "o", "n">>

(***************************************************************************)
(* GraphGenerator._filter_doc_metadata_entities on its own.                *)
(***************************************************************************)

\* ---- bound of the filter model ----
MaxEntities == 4

FilterEntities == {Entity("ada", "Person", "Ada Lovelace"),
                   Entity("acme", "Organization", "Acme"),
                   Entity("word", "Product", "Microsoft Office Word"),
                   Entity("nameless", "Concept", NULL)}

FilterResults ==
    [entities : UNION {[1..n -> FilterEntities] : n \in 0..MaxEntities},
     relationships : {<<>>, <<Relationship("ada", "USES", "word")>>}]

notFilterVars == <<machineVars, pipelineVars, extractVars, splitVars, embedVars, indexVars,
                    schemaVars, graphVars, langVars, otherVars>>

NotFilterIdle ==
    /\ MachineIdle /\ PipelineIdle /\ ExtractIdle /\ SplitIdle
    /\ EmbedIdle /\ IndexIdle /\ SchemaIdle /\ GraphIdle /\ LangIdle /\ OthersIdle

FilterInit ==
    /\ NotFilterIdle
    /\ f_in \in FilterResults
    /\ f_pc = "call"
    /\ f_out = NoGraphData

\* result = self._filter_doc_metadata_entities(result)
FilterCall ==
    /\ f_pc = "call"
    /\ LET r == filter_doc_metadata_entities(f_in)
       IN IF r.ok
          THEN f_out' = r.value /\ f_pc' = "returned"
          ELSE f_pc' = "raised" /\ UNCHANGED f_out
    /\ UNCHANGED <<notFilterVars, f_in>>

FilterNext == FilterCall

FilterSpec == FilterInit /\ [][FilterNext]_vars

\* ---- claims about the metadata filter (FilterSpec) ----

\* C27: the filter returns the unfiltered result whenever filtering would
\* remove more than 90% of the entities, whatever their number (1, 2 and 3
\* included), and the filtered result otherwise.
FilterSkippedOver90 ==
    f_pc = "returned" =>
       LET n == Len(f_in.entities)
           IsMetadata(en) == en.name \in metadata_terms
           NotMetadata(en) == ~IsMetadata(en)
           removedIds == {f_in.entities[i].id : i \in {j \in 1..n : IsMetadata(f_in.entities[j])}}
           Linked(rel) == rel.source \notin removedIds /\ rel.target \notin removedIds
           kept == SelectSeq(f_in.entities, NotMetadata)
       IN IF (n - Len(kept)) * 10 > 9 * n
          THEN f_out = f_in
          ELSE /\ f_out.entities = kept
               /\ f_out.relationships = SelectSeq(f_in.relationships, Linked)

(***************************************************************************)
(* GraphGenerator.process_document chunk by chunk, with the parsing of the *)
(* LLM reply.  A reply is a sequence of tokens: prose without braces, a    *)
(* lone "{" or "}", a complete JSON object, the opening and the closing    *)
(* of a fenced json block; "raises" stands for a call that raised.         *)
(***************************************************************************)

\* ---- bound of the graph model ----
MaxGraphChunks == 2

\* a chunk: len(chunk.strip()), and len(cleaned_chunk.strip()) after the
\* cleaning applied to the chunks of .doc files
GraphChunk(len, cleaned) == [len |-> len, cleaned |-> cleaned]

GraphChunkKinds == {GraphChunk(49, 49), GraphChunk(50, 50), GraphChunk(300, 300),
                    GraphChunk(300, 20)}

GraphChunkLists == UNION {[1..n -> GraphChunkKinds] : n \in 0..MaxGraphChunks}

Replies == {
    <<"raises">>,
    <<"prose">>,
    <<"object">>,
    <<"prose", "object", "prose">>,
    <<"object", "prose", "rbrace", "prose">>,
    <<"object", "prose", "object">>,
    <<"prose", "lbrace", "prose", "rbrace", "object">>,
    <<"fence", "object", "endfence">>,
    <<"prose", "fence", "object", "endfence", "prose", "object">>
}

\* a dict of the JSON object: its properties are a function of their keys,
\* the empty one when the key "properties" is missing; origin is the index
\* of the chunk the LLM was asked about
RawEntity(id, type, name, properties, origin) ==
    [id |-> id, type |-> type, name |-> name, properties |-> properties, origin |-> origin]

RawRelationship(source, type, target, origin) ==
    [source |-> source, type |-> type, target |-> target, properties |-> <<>>,
     origin |-> origin]

\* the JSON object of the replies about chunk i
ObjectAbout(i) ==
    GraphData(<<RawEntity("ada", <<"p", "e", "r", "s", "o", "n">>, "Ada Lovelace", <<>>, i),
                RawEntity("acme", <<"c", "o", "m", "p", "a", "n", "y">>, "Acme",
                          [k \in {"document_id"} |-> "another document"], i),
                RawEntity("word", <<"s", "o", "f", "t", "w", "a", "r", "e">>,
                          "Microsoft Office Word", <<>>, i)>>,
              <<RawRelationship("ada", <<"w", "o", "r", "k", "s", " ", "f", "o", "r">>, "acme", i),
                RawRelationship("ada", <<"u", "s", "e", "s">>, "word", i)>>)

\* re.search(r'```json\s*(.*?)\s*```', result_text, re.DOTALL)
fenced(tokens) ==
    LET opens == {i \in 1..Len(tokens) : tokens[i] = "fence"
                     /\ \E j \in (i + 1)..Len(tokens) : tokens[j] = "endfence"}
        first == CHOOSE i \in opens : \A j \in opens : i <= j
        closes == {j \in (first + 1)..Len(tokens) : tokens[j] = "endfence"}
        close == CHOOSE j \in closes : \A h \in closes : j <= h
    IN IF opens = {} THEN <<"no match">> ELSE SubSeq(tokens, first + 1, close - 1)

\* re.search(r'(\{.*\})', result_text, re.DOTALL): from the first "{" that
\* has a "}" after it to the last "}" of the text
braced(tokens) ==
    LET closing == {j \in 1..Len(tokens) : tokens[j] \in {"rbrace", "object"}}
        opening == {i \in 1..Len(tokens) :
                       \/ tokens[i] = "object"
                       \/ tokens[i] = "lbrace" /\ \E j \in closing : j > i}
        first == CHOOSE i \in opening : \A j \in opening : i <= j
        last == CHOOSE j \in closing : \A h \in closing : j >= h
    IN IF opening = {} THEN <<"no match">> ELSE SubSeq(tokens, first, last)

\* the text handed to json.loads
result_text(tokens) ==
    IF fenced(tokens) # <<"no match">> THEN fenced(tokens)
    ELSE IF braced(tokens) # <<"no match">> THEN braced(tokens)
    ELSE tokens

\* json.loads: the dict of the object when the text is one JSON object and
\* nothing else, JSONDecodeError otherwise
json_loads(tokens, object) ==
    IF tokens = <<"object">> THEN Return(object)
    ELSE Raise(Exception("JSONDecodeError", ""), NoGraphData)

\* stamp that leaves chunk_index out
stamp_document_id_only(item, document_id, chunk_index) ==
    [item EXCEPT !.properties =
        [k \in DOMAIN item.properties \cup {"document_id"} |->
            IF k = "document_id" THEN document_id ELSE item.properties[k]]]

\* entity["properties"]["document_id"] = document_id and
\* entity["properties"]["chunk_index"] = chunk_index, the other keys kept
stamp(item, document_id, chunk_index) ==
    [item EXCEPT !.properties =
        [k \in DOMAIN item.properties \cup {"document_id", "chunk_index"} |->
            IF k = "document_id" THEN document_id
            ELSE IF k = "chunk_index" THEN chunk_index
            ELSE item.properties[k]]]

\* the body of extract_entities_and_relationships after the call of the
\* LLM: parse, stamp, normalize; every exception gives the empty result
extract_reply(tokens, document_id, chunk_index) ==
    IF tokens = <<"raises">> THEN NoGraphData
    ELSE LET parsed == json_loads(result_text(tokens), ObjectAbout(chunk_index))
             result == IF parsed.ok THEN parsed.value ELSE NoGraphData
         IN GraphData(
               [i \in 1..Len(result.entities) |->
                   [stamp(result.entities[i], document_id, chunk_index)
                      EXCEPT !.type = normalize_entity_type(result.entities[i].type)]],
               [i \in 1..Len(result.relationships) |->
                   [stamp(result.relationships[i], document_id, chunk_index)
                      EXCEPT !.type = normalize_relationship_type(result.relationships[i].type)]])

notGraphVars == <<machineVars, pipelineVars, extractVars, splitVars, embedVars, indexVars,
                   schemaVars, filterVars, langVars, otherVars>>

NotGraphIdle ==
    /\ MachineIdle /\ PipelineIdle /\ ExtractIdle /\ SplitIdle
    /\ EmbedIdle /\ IndexIdle /\ SchemaIdle /\ FilterIdle /\ LangIdle /\ OthersIdle

NotStored == [called |-> FALSE, entities |-> <<>>, relationships |-> <<>>]

\* process_document(document_id, ..., text, file_path, chunks=chunks): "if
\* not chunks: chunks = [text]" has been applied
GraphInit ==
    /\ NotGraphIdle
    /\ k_doc \in [document_id : {"doc-1"}, ext : {"pdf", "doc"}]
    /\ \E given \in GraphChunkLists :
          k_chunks = IF given = <<>> THEN <<GraphChunk(300, 300)>> ELSE given
    /\ k_pc = "loop"
    /\ k_i = 0
    /\ k_calls = <<>>
    /\ k_entities = <<>>
    /\ k_relationships = <<>>
    /\ k_store = NotStored

\* one turn of "for i, chunk in enumerate(chunks)"
GraphTurn ==
    /\ k_pc = "loop"
    /\ k_i < Len(k_chunks)
    /\ LET chunk == k_chunks[k_i + 1]
           is_doc_file == k_doc.ext = "doc"
           cleaned == IF is_doc_file THEN chunk.cleaned ELSE chunk.len
       IN IF chunk.len < 50 \/ cleaned < 50
          THEN /\ k_i' = k_i + 1
               /\ UNCHANGED <<k_pc, k_calls, k_entities, k_relationships>>
          ELSE \E reply \in Replies :
                  LET result == extract_reply(reply, k_doc.document_id, k_i)
                      filtered == IF is_doc_file THEN filter_doc_metadata_entities(result)
                                  ELSE Return(result)
                  IN /\ k_calls' = Append(k_calls, [chunk_index |-> k_i, reply |-> reply,
                                                    result |-> result])
                     /\ IF filtered.ok
                        THEN /\ k_entities' = k_entities \o filtered.value.entities
                             /\ k_relationships' = k_relationships \o filtered.value.relationships
                             /\ k_i' = k_i + 1
                             /\ UNCHANGED k_pc
                        ELSE /\ k_pc' = "raised"
                             /\ UNCHANGED <<k_i, k_entities, k_relationships>>
    /\ UNCHANGED <<notGraphVars, k_doc, k_chunks, k_store>>

\* after the loop: store_entities_and_relationships, whose failure is
\* swallowed, and the return
GraphStore ==
    /\ k_pc = "loop"
    /\ k_i = Len(k_chunks)
    /\ k_store' = [called |-> TRUE, entities |-> k_entities,
                   relationships |-> k_relationships]
    /\ k_pc' = "returned"
    /\ UNCHANGED <<notGraphVars, k_doc, k_chunks, k_i, k_calls, k_entities, k_relationships>>

GraphNext ==
    \/ GraphTurn
    \/ GraphStore

GraphSpec == GraphInit /\ [][GraphNext]_vars

\* ---- claims about GraphGenerator.process_document (GraphSpec) ----

\* the entities and the relationships passed to the graph store
StoredItems ==
    {k_store.entities[i] : i \in 1..Len(k_store.entities)}
       \cup {k_store.relationships[i] : i \in 1..Len(k_store.relationships)}

\* C28: every entity and relationship passed to the graph store has
\* properties.document_id = the id of the document and
\* properties.chunk_index = the index of the chunk it was extracted from,
\* and a canonical type; a chunk of fewer than 50 characters after strip()
\* gets no LLM call and gives no entity.
StoredItemsStamped ==
    /\ \A item \in StoredItems :
          /\ "document_id" \in DOMAIN item.properties
          /\ item.properties["document_id"] = k_doc.document_id
          /\ "chunk_index" \in DOMAIN item.properties
          /\ item.properties["chunk_index"] = item.origin
          /\ k_chunks[item.origin + 1].len >= 50
    /\ \A i \in 1..Len(k_store.entities) :
          k_store.entities[i].type \in {ENTITY_TYPES[j].main : j \in 1..Len(ENTITY_TYPES)}
    /\ \A i \in 1..Len(k_store.relationships) :
          k_store.relationships[i].type \in
             {RELATIONSHIP_TYPES[j].main : j \in 1..Len(RELATIONSHIP_TYPES)}
    /\ \A i \in 1..Len(k_calls) : k_chunks[k_calls[i].chunk_index + 1].len >= 50

\* the first chunk was too short and the entities of the second were stored
SecondChunkStored ==
    /\ k_pc = "returned"
    /\ Len(k_chunks) = 2
    /\ k_chunks[1].len < 50
    /\ k_store.called
    /\ Len(k_store.entities) >= 2
    /\ Len(k_store.relationships) >= 1

\* C29: for a reply without fenced block, the first JSON object of the
\* reply is parsed whatever follows it (prose, further braces, a second
\* object); a reply that cannot be parsed gives no entity and no
\* relationship for its chunk, and the chunks after it are still processed.
FirstObjectParsed ==
    /\ k_pc # "raised"
    /\ \A c \in 1..Len(k_calls) :
          LET tokens == k_calls[c].reply
              braces == {i \in 1..Len(tokens) : tokens[i] \in {"lbrace", "rbrace", "object"}}
          IN /\ braces # {}
             /\ tokens[CHOOSE i \in braces : \A j \in braces : i <= j] = "object"
             /\ \A i \in 1..Len(tokens) : tokens[i] # "fence"
             => Len(k_calls[c].result.entities) = Len(ObjectAbout(0).entities)
    /\ k_pc = "returned" =>
          \A i \in 1..Len(k_chunks) :
             k_chunks[i].len >= 50 /\ (k_doc.ext = "doc" => k_chunks[i].cleaned >= 50)
             => \E c \in 1..Len(k_calls) : k_calls[c].chunk_index = i - 1

(***************************************************************************)
(* detect_language (extractor) and detect_language_for_splitting           *)
(* (splitter).  A text is given by what the tests of the two functions     *)
(* see of it.                                                              *)
(***************************************************************************)

\* what langdetect.detect gives for one sample; "fails" is an exception
DetectorOutcomes == {"en", "lt", "tr", "pl", "pt", "de", "fails"}

\* stripped: len(text.strip()); len: len(text); keyword: one of the
\* Lithuanian keywords occurs in text.lower(); lt_chars, tr_chars: a
\* character of the Lithuanian / Turkish class occurs in text[:10000];
\* more_lt: more than 2 of the characters of [ąčęėįšųūž] occur there;
\* samples: what detect gives for each sample
LangTexts ==
    UNION {[stripped : {n}, len : {n}, keyword : BOOLEAN, lt_chars : BOOLEAN,
            tr_chars : BOOLEAN, more_lt : BOOLEAN,
            samples : [1..(IF n > 6000 THEN 3 ELSE 1) -> DetectorOutcomes]] :
              n \in {10, 50, 200, 7000}}

\* lang_counts, and max(lang_counts.items(), key=lambda x: x[1])[0]: the
\* language counted most often, the one met first among equals; 'en' when
\* every sample failed
most_common_lang(samples) ==
    LET langs == {samples[i] : i \in 1..Len(samples)} \ {"fails"}
        count(lang) == Cardinality({i \in 1..Len(samples) : samples[i] = lang})
        first(lang) == CHOOSE i \in 1..Len(samples) :
                          samples[i] = lang /\ \A j \in 1..(i - 1) : samples[j] # lang
        best == {a \in langs : \A b \in langs : count(a) >= count(b)}
    IN IF langs = {} THEN "en"
       ELSE CHOOSE a \in best : \A b \in best : first(a) <= first(b)

\* the remapping of the detected code; the keywords looked for here are
\* among those tested first, so that none is found; more_lt counts in the
\* splitter only
remapped(fn, t) ==
    LET most == most_common_lang(t.samples)
    IN IF most \in {"lt", "lv", "et", "pl"} THEN "lt"
       ELSE IF most \in {"pt", "ca", "ro", "cs", "sk", "sl"}
       THEN (IF t.keyword THEN "lt"
             ELSE IF fn = "detect_language_for_splitting" /\ t.more_lt THEN "lt"
             ELSE most)
       ELSE most

\* if not text or len(text.strip()) < 20 (extractor) / < 100 (splitter)
too_short(fn, t) ==
    t.stripped < (IF fn = "detect_language" THEN 20 ELSE 100)

\* detect_language: a tesseract code
detect_language(t) ==
    IF too_short("detect_language", t) THEN "eng"
    ELSE IF t.keyword THEN "lit+eng"
    ELSE IF t.lt_chars THEN "lit+eng"
    ELSE IF t.tr_chars THEN "tur+eng"
    ELSE CASE remapped("detect_language", t) = "lt" -> "lit+eng"
           [] remapped("detect_language", t) = "tr" -> "tur+eng"
           [] OTHER -> "eng"

\* detect_language_for_splitting: a language code
detect_language_for_splitting(t) ==
    IF too_short("detect_language_for_splitting", t) THEN "en"
    ELSE IF t.keyword THEN "lt"
    ELSE IF t.lt_chars THEN "lt"
    ELSE IF t.tr_chars THEN "tr"
    ELSE remapped("detect_language_for_splitting", t)

notLangVars == <<machineVars, pipelineVars, extractVars, splitVars, embedVars, indexVars,
                  schemaVars, filterVars, graphVars, otherVars>>

NotLangIdle ==
    /\ MachineIdle /\ PipelineIdle /\ ExtractIdle /\ SplitIdle
    /\ EmbedIdle /\ IndexIdle /\ SchemaIdle /\ FilterIdle /\ GraphIdle /\ OthersIdle

LangInit ==
    /\ NotLangIdle
    /\ l_fn \in {"detect_language", "detect_language_for_splitting"}
    /\ l_text \in LangTexts
    /\ l_pc = "call"
    /\ l_result = ""

\* the call: every exception of detect is caught around each sample
DetectCall ==
    /\ l_pc = "call"
    /\ l_result' = IF l_fn = "detect_language" THEN detect_language(l_text)
                   ELSE detect_language_for_splitting(l_text)
    /\ l_pc' = "returned"
    /\ UNCHANGED <<notLangVars, l_fn, l_text>>

LangNext == DetectCall

LangSpec == LangInit /\ [][LangNext]_vars

\* ---- claims about the language detectors (LangSpec) ----

Lithuanian == {"lit+eng", "lt"}

Turkish == {"tur+eng", "tr"}

\* C30: a text with one of the Lithuanian keywords is classified as
\* Lithuanian whatever its length, its characters and the statistical
\* detection; otherwise Lithuanian characters win over Turkish characters,
\* which win over the statistical detection, which falls back to English;
\* a failure of the statistical detector never propagates.
KeywordsFirst ==
    /\ l_pc # "raised"
    /\ l_pc = "returned" =>
          IF l_text.keyword THEN l_result \in Lithuanian
          ELSE l_text.stripped >= 100 =>
                  IF l_text.lt_chars THEN l_result \in Lithuanian
                  ELSE IF l_text.tr_chars THEN l_result \in Turkish
                  ELSE (\A i \in 1..Len(l_text.samples) : l_text.samples[i] = "fails")
                          => l_result \in {"eng", "en"}

(***************************************************************************)
(* The document status view: api/views.py document_status, one request.    *)
(* An id string is a UUID value together with the way it is spelled:       *)
(* str(uuid) gives the canonical spelling (lower-case hex digits with      *)
(* hyphens), UUIDField also reads the same digits in capitals, and a       *)
(* string that is no UUID makes the lookup raise ValidationError.          *)
(***************************************************************************)

Uuids == {"uuid-1", "uuid-2"}

IdString(u, form) == [uuid |-> u, form |-> form]

\* str(doc['id'])
str(u) == IdString(u, "canonical")

\* a string that is no UUID, and an empty item of the comma-separated list
Junk == IdString("", "junk")

Blank == IdString("", "blank")

\* document_id=None
NoId == IdString("", "none")

IdStrings == {IdString(u, f) : u \in Uuids, f \in {"canonical", "capitals"}} \cup {Junk, Blank}

\* UUIDField.to_python accepts the string
IsUuid(s) == s.form \in {"canonical", "capitals"}

\* updated_at.isoformat()
isoformat(t) == IF t = "2025-05-01 10:00:00+00:00" THEN "2025-05-01T10:00:00+00:00" ELSE t

DocumentRows ==
    [name : {"a.txt"}, status : STATUS_CHOICES, error_message : {NULL, NoTextMessage},
     updated_at : {"2025-05-01 10:00:00+00:00"}]

Tables == UNION {[S -> DocumentRows] : S \in SUBSET Uuids}

MaxIds == 2

IdLists == UNION {[1..n -> IdStrings] : n \in 0..MaxIds}

\* the requests: one id in the URL (the route's uuid converter lets only
\* canonical spellings through), ids in the query string, or neither
Requests ==
    {[document_id |-> NoId, has_ids |-> TRUE, ids |-> l] : l \in IdLists}
    \cup {[document_id |-> NoId, has_ids |-> FALSE, ids |-> <<>>]}
    \cup {[document_id |-> str(u), has_ids |-> FALSE, ids |-> <<>>] : u \in Uuids}

Response(code, body) == [code |-> code, body |-> body]

ErrorBody == [x \in {"error"} |-> "error"]

\* the entry of a row that exists
StatusEntry(u, r) ==
    [id |-> str(u), name |-> r.name, status |-> r.status, error |-> r.error_message,
     updated_at |-> isoformat(r.updated_at)]

\* status_map[doc_id] = {'id': doc_id, 'status': 'not_found'}
NotFoundEntry(s) == {s}

\* [doc_id.strip() for doc_id in document_ids if doc_id.strip()]
NotBlankIds(l) == SelectSeq(l, LAMBDA s : s # Blank)

Elems(l) == {l[i] : i \in 1..Len(l)}

\* the multi-id branch
status_of_many(table, ids) ==
    LET document_ids == NotBlankIds(ids)
        asked == Elems(document_ids)
    IN IF document_ids = <<>> THEN Response(400, ErrorBody)
       ELSE IF \E s \in asked : ~IsUuid(s) THEN Response(500, ErrorBody)
       ELSE LET found == {s.uuid : s \in asked} \cap DOMAIN table
                missing == UNION {NotFoundEntry(s) : s \in {a \in asked : a \notin {str(u) : u \in found}}}
            IN Response(200,
                   [k \in {str(u) : u \in found} \cup missing |->
                       IF k \in missing
                       THEN [id |-> k, name |-> NULL, status |-> "not_found", error |-> NULL,
                             updated_at |-> NULL]
                       ELSE StatusEntry(k.uuid, table[k.uuid])])

\* the single-id branch
status_of_one(table, s) ==
    IF s.uuid \notin DOMAIN table THEN Response(404, ErrorBody)
    ELSE Response(200, [k \in {str(s.uuid)} |-> StatusEntry(s.uuid, table[s.uuid])])

document_status(table, request) ==
    IF request.document_id = NoId /\ request.has_ids
    THEN status_of_many(table, request.ids)
    ELSE IF request.document_id # NoId
    THEN status_of_one(table, request.document_id)
    ELSE Response(400, ErrorBody)

\* the variable groups of the specifications above
pipelineSideVars == <<machineVars, pipelineVars, extractVars, splitVars, embedVars, indexVars,
                      schemaVars, filterVars, graphVars, langVars>>

PipelineSideIdle ==
    /\ MachineIdle /\ PipelineIdle /\ ExtractIdle /\ SplitIdle
    /\ EmbedIdle /\ IndexIdle /\ SchemaIdle /\ FilterIdle /\ GraphIdle /\ LangIdle

notQueryVars == <<pipelineSideVars, folderVars, attemptVars>>

NotQueryIdle == PipelineSideIdle /\ FolderIdle /\ AttemptIdle

QueryInit ==
    /\ q_table \in Tables
    /\ q_request \in Requests
    /\ q_pc = "called"
    /\ q_response = <<>>
    /\ NotQueryIdle

QueryCall ==
    /\ q_pc = "called"
    /\ q_pc' = "returned"
    /\ q_response' = document_status(q_table, q_request)
    /\ UNCHANGED <<notQueryVars, q_table, q_request>>

QueryNext == QueryCall

QuerySpec == QueryInit /\ [][QueryNext]_vars

\* the ids a multi-id request asks for
Asked == Elems(NotBlankIds(q_request.ids))

IsMultiQuery == q_request.document_id = NoId /\ q_request.has_ids /\ Asked # {}

\* a document with the id exists
Exists(s) == IsUuid(s) /\ s.uuid \in DOMAIN q_table

\* the response holds an entry under the id as it was asked for
HasEntry(s) == q_response.code = 200 /\ s \in DOMAIN q_response.body

\* C31 (as claimed): the multi-id status query returns, for each requested
\* id, one entry: the document's id, name, status, error and updated_at
\* when a document with that id exists, and an entry with status
\* 'not_found' if and only if no such document exists.
EveryIdReported ==
    (q_pc = "returned" /\ IsMultiQuery) =>
        \A s \in Asked :
            \/ /\ Exists(s)
               /\ HasEntry(str(s.uuid))
               /\ q_response.body[str(s.uuid)] = StatusEntry(s.uuid, q_table[s.uuid])
               /\ ~(HasEntry(s) /\ q_response.body[s].status = "not_found")
            \/ /\ ~Exists(s)
               /\ HasEntry(s)
               /\ q_response.body[s].status = "not_found"

(***************************************************************************)
(* The folder endpoints: FolderViewSet (a plain ModelViewSet) with         *)
(* FolderSerializer.  A request is followed in two steps, is_valid() and   *)
(* save(), and the requests of different clients interleave; the table     *)
(* has no constraint on (parent, name) and none on the parent links.       *)
(* The directories on disk are followed in DeleteSpec.                     *)
(***************************************************************************)

FolderIds == {"f1", "f2"}

FolderNames == {"A", "B"}

Clients == {"client-1", "client-2"}

\* parent=None: a folder at the top level
NoParent == "None"

Folder(name, parent) == [name |-> name, parent |-> parent]

NoRequest ==
    [op |-> "none", instance |-> "", has_name |-> FALSE, name |-> "",
     has_parent |-> FALSE, parent |-> "", pc |-> "none"]

\* POST folders/ with a name and possibly a parent
CreateRequest(name, has_parent, parent) ==
    [op |-> "create", instance |-> "", has_name |-> TRUE, name |-> name,
     has_parent |-> has_parent, parent |-> parent, pc |-> "valid"]

\* PUT or PATCH folders/<id>/ with the fields the request carries
UpdateRequest(f, has_name, name, has_parent, parent) ==
    [op |-> "update", instance |-> f, has_name |-> has_name, name |-> name,
     has_parent |-> has_parent, parent |-> parent, pc |-> "valid"]

\* the primary key of the next row (uuid4: an unused one)
NewId == CHOOSE f \in FolderIds : f \notin DOMAIN d_folders

\* PrimaryKeyRelatedField(queryset=Folder.objects.all(), allow_null=True)
ParentIsValid(folders, has_parent, parent) ==
    has_parent => parent = NoParent \/ parent \in DOMAIN folders

\* self.initial_data.get('parent')
initial_parent(has_parent, parent) == IF has_parent THEN parent ELSE NoParent

\* FolderSerializer.validate_name: run for a request that carries a name
validate_name(folders, instance, value, has_parent, parent) ==
    ~\E g \in DOMAIN folders :
        /\ folders[g].name = value
        /\ folders[g].parent = initial_parent(has_parent, parent)
        /\ g # instance

is_valid(folders, r) ==
    /\ ParentIsValid(folders, r.has_parent, r.parent)
    /\ r.has_name => validate_name(folders, r.instance, r.name, r.has_parent, r.parent)

\* the names from the folder up to the top level while "current" is set;
\* a walk longer than the number of rows has met a row twice and never ends
RECURSIVE walk(_, _, _)
walk(folders, current, fuel) ==
    IF current = NoParent THEN <<>>
    ELSE IF fuel = 0 THEN <<"...">>
    ELSE walk(folders, folders[current].parent, fuel - 1) \o <<folders[current].name>>

Terminates(folders, f) ==
    LET parts == walk(folders, f, Cardinality(DOMAIN folders))
    IN parts = <<>> \/ parts[1] # "..."

\* models/folder.py build_folder_path, for a folder whose walk ends
build_folder_path(folders, f) ==
    LET parts == walk(folders, f, Cardinality(DOMAIN folders))
    IN IF parts = <<>> \/ parts[1] # "Documents" THEN <<"Documents">> \o parts ELSE parts

notFolderVars == <<pipelineSideVars, queryVars, attemptVars>>

NotFolderIdle == PipelineSideIdle /\ QueryIdle /\ AttemptIdle

FolderInit ==
    /\ d_folders = <<>>
    /\ d_requests = [c \in Clients |-> NoRequest]
    /\ d_dirs = {}
    /\ d_files = <<>>
    /\ d_log = <<>>
    /\ NotFolderIdle

\* a request arrives and its serializer validates it against the rows as
\* they are now; a request that is rejected (400) changes nothing
Validate(c, r) ==
    /\ d_requests[c].pc = "none"
    /\ r.op = "update" => r.instance \in DOMAIN d_folders
    /\ r.op = "create" => DOMAIN d_folders # FolderIds
    /\ IF is_valid(d_folders, r)
       THEN d_requests' = [d_requests EXCEPT ![c] = r]
       ELSE UNCHANGED d_requests
    /\ UNCHANGED <<notFolderVars, d_folders, d_dirs, d_files, d_log>>

\* serializer.save() of a create: the row is inserted, then
\* handle_folder_post_save builds the path of the new folder
CreateSave(c) ==
    LET r == d_requests[c]
        new == Folder(r.name, initial_parent(r.has_parent, r.parent))
        after == [f \in DOMAIN d_folders \cup {NewId} |->
                     IF f = NewId THEN new ELSE d_folders[f]]
    IN /\ r.pc = "valid" /\ r.op = "create"
       /\ DOMAIN d_folders # FolderIds
       /\ d_folders' = after
       /\ d_requests' = [d_requests EXCEPT ![c] =
              IF Terminates(after, NewId) THEN NoRequest ELSE [r EXCEPT !.pc = "hung"]]
       /\ UNCHANGED <<notFolderVars, d_dirs, d_files, d_log>>

\* serializer.save() of an update: handle_folder_pre_save builds the path
\* of the row as stored and of the instance as changed, then the row is
\* written with the fields the request carried, and the response builds
\* the path of the folder once more (FolderSerializer.get_path)
UpdateSave(c) ==
    LET r == d_requests[c]
        f == r.instance
        old == d_folders[f]
        new == Folder(IF r.has_name THEN r.name ELSE old.name,
                      IF r.has_parent THEN r.parent ELSE old.parent)
    IN /\ r.pc = "valid" /\ r.op = "update"
       /\ IF Terminates(d_folders, f) /\ Terminates(d_folders, new.parent)
          THEN /\ d_folders' = [d_folders EXCEPT ![f] = new]
               /\ d_requests' = [d_requests EXCEPT ![c] =
                      IF Terminates([d_folders EXCEPT ![f] = new], f)
                      THEN NoRequest ELSE [r EXCEPT !.pc = "hung"]]
          ELSE /\ d_requests' = [d_requests EXCEPT ![c] = [r EXCEPT !.pc = "hung"]]
               /\ UNCHANGED d_folders
       /\ UNCHANGED <<notFolderVars, d_dirs, d_files, d_log>>

\* the worker that hung is killed
Abandon(c) ==
    /\ d_requests[c].pc = "hung"
    /\ d_requests' = [d_requests EXCEPT ![c] = NoRequest]
    /\ UNCHANGED <<notFolderVars, d_folders, d_dirs, d_files, d_log>>

\* the parents a request can name, and a request that names none
Parents == {NoParent} \cup FolderIds

FolderRequests ==
    {CreateRequest(n, TRUE, p) : n \in FolderNames, p \in Parents}
    \cup {CreateRequest(n, FALSE, "") : n \in FolderNames}
    \cup {UpdateRequest(f, TRUE, n, TRUE, p) : f \in FolderIds, n \in FolderNames, p \in Parents}
    \cup {UpdateRequest(f, TRUE, n, FALSE, "") : f \in FolderIds, n \in FolderNames}
    \cup {UpdateRequest(f, FALSE, "", TRUE, p) : f \in FolderIds, p \in Parents}

FolderNext ==
    \/ \E c \in Clients, r \in FolderRequests : Validate(c, r)
    \/ \E c \in Clients : CreateSave(c)
    \/ \E c \in Clients : UpdateSave(c)
    \/ \E c \in Clients : Abandon(c)

FolderSpec == FolderInit /\ [][FolderNext]_vars

\* C32 (as claimed): after any sequence and any interleaving of folder
\* create, rename and move requests through FolderSerializer, no two
\* folders with the same parent have the same name.
UniqueAmongSiblings ==
    \A f \in DOMAIN d_folders : \A g \in DOMAIN d_folders :
        (f # g /\ d_folders[f].parent = d_folders[g].parent) =>
            d_folders[f].name # d_folders[g].name

\* C39 (as claimed): after any sequence of folder create and move requests
\* the parent links form a forest, so build_folder_path terminates for
\* every folder and returns a path starting with 'Documents'.
ParentLinksFormForest ==
    \A f \in DOMAIN d_folders :
        /\ Terminates(d_folders, f)
        /\ build_folder_path(d_folders, f)[1] = "Documents"

(***************************************************************************)
(* Deletion of folders and documents: the pre_delete handlers of           *)
(* signals.py acting on the disk.  A path is the sequence of its           *)
(* components below the directory that holds MEDIA_ROOT; requests are      *)
(* followed one at a time (create a folder, upload a document, delete).    *)
(***************************************************************************)

MEDIA_ROOT == <<"media">>

\* the root Documents directory
RootDir == <<"media", "Documents">>

\* folder names: a plain one, the name of the root directory, and the
\* name the file system reads as "the directory above"
DeleteNames == {"A", "Documents", ".."}

DocIds == {"doc-1"}

FileName == "x.txt"

AllBut(parts) == SubSeq(parts, 1, Len(parts) - 1)

\* os.path.basename for names without a separator
basename(parts) == parts[Len(parts)]

\* the directory the operating system reaches by the path
RECURSIVE Resolve(_)
Resolve(parts) ==
    IF parts = <<>> THEN <<>>
    ELSE LET r == Resolve(AllBut(parts))
         IN IF basename(parts) = ".."
            THEN (IF r = <<>> THEN <<>> ELSE AllBut(r))
            ELSE r \o <<basename(parts)>>

\* os.path.exists: every directory on the way has to exist
path_exists(disk, parts) ==
    \A n \in 1..Len(parts) : Resolve(SubSeq(parts, 1, n)) \in disk

IsBelow(p, r) == Len(p) > Len(r) /\ SubSeq(p, 1, Len(r)) = r

\* os.makedirs(path, exist_ok=True)
makedirs(disk, parts) == disk \cup {Resolve(SubSeq(parts, 1, n)) : n \in 1..Len(parts)}

\* shutil.rmtree(path): everything below goes; the final rmdir of a path
\* that ends in ".." fails, so that directory itself stays
rmtree(disk, parts) ==
    {p \in disk : ~IsBelow(p, Resolve(parts))
                  /\ (p = Resolve(parts) => basename(parts) = "..")}

\* Folder.physical_path
physical_path(folders, f) == MEDIA_ROOT \o build_folder_path(folders, f)

\* signals.py handle_folder_pre_delete
handle_folder_pre_delete(disk, folders, f) ==
    IF path_exists(disk, physical_path(folders, f))
       /\ basename(physical_path(folders, f)) # "Documents"
    THEN rmtree(disk, physical_path(folders, f))
    ELSE disk

\* signals.py handle_document_pre_delete
handle_document_pre_delete(disk, file_path) ==
    IF file_path \in disk
    THEN LET removed == disk \ {file_path}
             directory == AllBut(file_path)
         IN IF /\ directory \in removed
               /\ ~\E p \in removed : IsBelow(p, directory)
               /\ basename(directory) # "Documents"
            THEN removed \ {directory}
            ELSE removed
    ELSE disk

\* models/document.py document_upload_path, below MEDIA_ROOT
document_upload_path(folders, folder) ==
    MEDIA_ROOT \o (IF folder = NoParent THEN <<"Documents">> ELSE build_folder_path(folders, folder))
               \o <<FileName>>

\* on_delete=CASCADE: the folder, the folders below it and their documents
RECURSIVE IsInside(_, _, _, _)
IsInside(folders, g, f, fuel) ==
    \/ g = f
    \/ /\ fuel > 0 /\ g # NoParent /\ folders[g].parent # NoParent
       /\ IsInside(folders, folders[g].parent, f, fuel - 1)

Collected(folders, files, f) ==
    LET inside == {g \in DOMAIN folders : IsInside(folders, g, f, Cardinality(DOMAIN folders))}
    IN inside \cup {d \in DOMAIN files : files[d].folder \in inside}

\* the pre_delete handlers of the collected rows, one after the other
RECURSIVE handlers(_, _, _, _)
handlers(disk, folders, files, order) ==
    IF order = <<>> THEN disk
    ELSE LET x == Head(order)
             then == IF x \in DOMAIN folders
                     THEN handle_folder_pre_delete(disk, folders, x)
                     ELSE handle_document_pre_delete(disk, files[x].path)
         IN handlers(then, folders, files, Tail(order))

Orders(S) == {o \in [1..Cardinality(S) -> S] : \A x \in S : \E i \in DOMAIN o : o[i] = x}

Without(table, gone) == [x \in DOMAIN table \ gone |-> table[x]]

NoLog == [op |-> "none", path |-> <<>>, had_root |-> FALSE]

notDeleteVars == <<pipelineSideVars, queryVars, attemptVars, d_requests>>

DeleteInit ==
    /\ d_folders = <<>>
    /\ d_requests = <<>>
    /\ d_dirs = {<<>>, MEDIA_ROOT}
    /\ d_files = <<>>
    /\ d_log = NoLog
    /\ NotFolderIdle

\* POST folders/: validated, inserted, and handle_folder_post_save makes
\* the directory
CreateFolder(r) ==
    LET after == [f \in DOMAIN d_folders \cup {NewId} |->
                     IF f = NewId THEN Folder(r.name, initial_parent(r.has_parent, r.parent))
                     ELSE d_folders[f]]
    IN /\ DOMAIN d_folders # FolderIds
       /\ is_valid(d_folders, r)
       /\ d_folders' = after
       /\ d_dirs' = makedirs(d_dirs, physical_path(after, NewId))
       /\ d_log' = NoLog
       /\ UNCHANGED <<notDeleteVars, d_files>>

\* POST documents/: the file is stored under the path of its folder (an
\* upload into a folder whose path holds ".." is not followed: whether
\* the storage accepts such a path depends on the Django version)
UploadFile(d, folder) ==
    /\ d \notin DOMAIN d_files
    /\ folder # NoParent => folder \in DOMAIN d_folders
    /\ LET file_path == document_upload_path(d_folders, folder)
       IN /\ \A i \in DOMAIN file_path : file_path[i] # ".."
          /\ file_path \notin d_dirs
          /\ d_dirs' = makedirs(d_dirs, AllBut(file_path)) \cup {file_path}
          /\ d_files' = [x \in DOMAIN d_files \cup {d} |->
                            IF x = d THEN [folder |-> folder, path |-> file_path] ELSE d_files[x]]
    /\ d_log' = NoLog
    /\ UNCHANGED <<notDeleteVars, d_folders>>

\* DELETE folders/<id>/: the handlers of the collected rows run in an
\* order the code does not fix (the rows are sorted by their random
\* primary keys), then the rows are deleted
DeleteFolder(f) ==
    /\ f \in DOMAIN d_folders
    /\ \E order \in Orders(Collected(d_folders, d_files, f)) :
          d_dirs' = handlers(d_dirs, d_folders, d_files, order)
    /\ d_folders' = Without(d_folders, Collected(d_folders, d_files, f))
    /\ d_files' = Without(d_files, Collected(d_folders, d_files, f))
    /\ d_log' = [op |-> "folder", path |-> physical_path(d_folders, f),
                 had_root |-> RootDir \in d_dirs]
    /\ UNCHANGED notDeleteVars

\* DELETE documents/<id>/
DeleteDocument(d) ==
    /\ d \in DOMAIN d_files
    /\ d_dirs' = handle_document_pre_delete(d_dirs, d_files[d].path)
    /\ d_files' = Without(d_files, {d})
    /\ d_log' = [op |-> "document", path |-> d_files[d].path, had_root |-> RootDir \in d_dirs]
    /\ UNCHANGED <<notDeleteVars, d_folders>>

DeleteRequests ==
    {CreateRequest(n, TRUE, p) : n \in DeleteNames, p \in Parents}

DeleteNext ==
    \/ \E r \in DeleteRequests : CreateFolder(r)
    \/ \E d \in DocIds, folder \in Parents : UploadFile(d, folder)
    \/ \E f \in FolderIds : DeleteFolder(f)
    \/ \E d \in DocIds : DeleteDocument(d)

DeleteSpec == DeleteInit /\ [][DeleteNext]_vars

\* C33 (as claimed): deleting a folder removes its directory tree and
\* deleting a document removes its file, for every folder and document
\* other than the root; the root Documents directory is never removed by
\* a folder or document deletion.
DeletionRemovesAllButRoot ==
    /\ (d_log.op = "folder" /\ d_log.path # RootDir) =>
          ~\E p \in d_dirs : p = Resolve(d_log.path) \/ IsBelow(p, Resolve(d_log.path))
    /\ d_log.op = "document" => d_log.path \notin d_dirs
    /\ d_log.had_root => RootDir \in d_dirs

\* C34 (as claimed): in every reachable state a document whose status is
\* 'ready' has a null error_message, whatever the interleaving of a
\* pipeline attempt with the sweep, a retry or a second attempt.
ReadyHasNoMessage == \A d \in Docs : status[d] = "ready" => error_message[d] = NULL

\* C35 (as claimed): cleanup_processing_documents never overwrites a
\* 'ready' status: a row that a worker marked 'ready' after the sweep
\* selected it is still 'ready' after the sweep saved it.
SweepKeepsReady ==
    [][\A d \in Docs : (SweepSaves(d) /\ status[d] = "ready") => status'[d] = "ready"]_vars

\* C36 (as claimed): when an attempt fails while retries remain, the
\* error_message left on the document by that attempt is the text of the
\* processing error: the execution that called self.retry ends without
\* writing status or error_message again.
RetryKeepsProcessingError ==
    [][\A t \in BagToSet(tasks) :
          (t.pc = "retry" /\ tasks' = tasks (-) One(t)) =>
              /\ status'[t.doc] = status[t.doc]
              /\ error_message'[t.doc] = error_message[t.doc]]_vars

(***************************************************************************)
(* One execution of process_document_task, handler by handler, for a       *)
(* document id whose row may be missing from the start or be deleted       *)
(* while service.process_document runs; with the error report file.        *)
(***************************************************************************)

DoesNotExistMessage == "Document matching query does not exist."

Row(exists, s, m) == [exists |-> exists, status |-> s, error_message |-> m]

NoDocument == Row(FALSE, NoRow, NULL)

\* the get() of a task transaction with every id taken as present
FoundAlways(r) == TRUE

\* Document.objects.select_for_update().get(id=document_id) finds the row
\* (it raises Document.DoesNotExist otherwise)
Found(r) == r.exists

\* if self.request.retries >= self.max_retries - 1
ShouldReport(retries) == retries >= max_retries - 1

notAttemptVars == <<pipelineSideVars, queryVars, folderVars>>

NotAttemptIdle == PipelineSideIdle /\ QueryIdle /\ FolderIdle

AttemptInit ==
    /\ a_row \in {NoDocument, Row(TRUE, "processing", NULL), Row(TRUE, "error", TimeoutMessage),
                  Row(TRUE, "error", NoTextMessage)}
    /\ a_retries \in 0..max_retries
    /\ a_pc = "queued"
    /\ a_exc = ""
    /\ a_report = FALSE
    /\ a_retry_sent = FALSE
    /\ a_result = ""
    /\ NotAttemptIdle

\* first transaction: the row is locked and set to 'processing' if it is
\* not already; a missing row makes the task return at once
AttemptStart ==
    /\ a_pc = "queued"
    /\ IF Found(a_row)
       THEN /\ a_row' = IF a_row.status # "processing"
                        THEN Row(a_row.exists, "processing", NULL) ELSE a_row
            /\ a_pc' = "pipeline"
            /\ UNCHANGED a_result
       ELSE /\ a_result' = "not found"
            /\ a_pc' = "done"
            /\ UNCHANGED a_row
    /\ UNCHANGED <<notAttemptVars, a_retries, a_exc, a_report, a_retry_sent>>

\* the document is deleted through the API while the pipeline runs
AttemptDeleted ==
    /\ a_pc = "pipeline"
    /\ a_row.exists
    /\ a_row' = NoDocument
    /\ UNCHANGED <<notAttemptVars, a_retries, a_pc, a_exc, a_report, a_retry_sent, a_result>>

\* the pipeline returns, or raises one of its hard failures, or fails on
\* the file that the deletion of the document removed
PipelineOutcomes == {"ok", NoTextMessage, NoChunksMessage, NoSuchFileMessage}

\* service.process_document(document) returns or raises
AttemptPipeline(e) ==
    /\ a_pc = "pipeline"
    /\ a_pc' = IF e = "ok" THEN "returned" ELSE "raised"
    /\ a_exc' = IF e = "ok" THEN a_exc ELSE e
    /\ UNCHANGED <<notAttemptVars, a_row, a_retries, a_report, a_retry_sent, a_result>>

\* second transaction: 'ready'; its get() is inside the inner try, so a
\* missing row is handled like a processing error
AttemptReady ==
    /\ a_pc = "returned"
    /\ IF Found(a_row)
       THEN /\ a_row' = Row(a_row.exists, "ready", a_row.error_message)
            /\ a_result' = "success"
            /\ a_pc' = "done"
            /\ UNCHANGED a_exc
       ELSE /\ a_exc' = DoesNotExistMessage
            /\ a_pc' = "raised"
            /\ UNCHANGED <<a_row, a_result>>
    /\ UNCHANGED <<notAttemptVars, a_retries, a_report, a_retry_sent>>

\* the inner handler: record the error, write the report on the "final"
\* attempt (a failure to write it is only logged), then retry or return
AttemptError ==
    /\ a_pc = "raised"
    /\ IF Found(a_row)
       THEN /\ a_row' = Row(a_row.exists, "error", a_exc)
            /\ \E written \in BOOLEAN : a_report' = (ShouldReport(a_retries) /\ written)
            /\ IF ShouldRetry(a_retries)
               THEN /\ a_retry_sent' = TRUE
                    /\ a_exc' = CriticalMessage(a_exc)
                    /\ a_pc' = "critical"
                    /\ UNCHANGED a_result
               ELSE /\ a_result' = "error"
                    /\ a_pc' = "done"
                    /\ UNCHANGED <<a_retry_sent, a_exc>>
       ELSE /\ a_exc' = "Critical task error: " \o DoesNotExistMessage
            /\ a_pc' = "critical"
            /\ UNCHANGED <<a_row, a_report, a_retry_sent, a_result>>
    /\ UNCHANGED <<notAttemptVars, a_retries>>

\* the outer handler: record the critical error if the row exists, return
AttemptCritical ==
    /\ a_pc = "critical"
    /\ a_row' = IF Found(a_row) THEN Row(a_row.exists, "error", a_exc) ELSE a_row
    /\ a_result' = "critical error"
    /\ a_pc' = "done"
    /\ UNCHANGED <<notAttemptVars, a_retries, a_exc, a_report, a_retry_sent>>

AttemptNext ==
    \/ AttemptStart
    \/ AttemptDeleted
    \/ \E e \in PipelineOutcomes : AttemptPipeline(e)
    \/ AttemptReady
    \/ AttemptError
    \/ AttemptCritical

AttemptSpec == AttemptInit /\ [][AttemptNext]_vars

\* C37 (as claimed): the detailed error report file is written only on
\* the final attempt, that is on an attempt after which no further retry
\* is scheduled.
ReportOnlyOnFinalAttempt == a_report => ~a_retry_sent

\* C38: process_document_task for a document id without a row returns an
\* error result, creates or modifies no document and schedules no retry;
\* the same holds when the document is deleted while its pipeline runs.
MissingRowNoEffect ==
    /\ []((a_pc = "done" /\ ~a_row.exists) =>
             (a_result \in {"not found", "critical error"} /\ ~a_retry_sent))
    /\ [][~a_row.exists => a_row' = a_row]_vars

\* C38 witness: the row was deleted while the pipeline ran and the task
\* has returned the critical error result
DeletedWhileRunning ==
    a_pc = "done" /\ ~a_row.exists /\ a_result = "critical error"

\* C40 (as claimed): every synonym listed under a canonical type in
\* ENTITY_TYPES and RELATIONSHIP_TYPES normalizes to the canonical type
\* under which it is listed, also a synonym listed under more than one
\* type.
SynonymsNormalizeToOwnType ==
    n_pc \in {"once", "twice"} =>
       LET types == IF n_kind = "entity" THEN ENTITY_TYPES ELSE RELATIONSHIP_TYPES
       IN \A i \in WithSynonym(types, n_in) : n_once = types[i].main

TypeOK ==
    /\ status \in [Docs -> STATUS_CHOICES \cup {NoRow}]
    /\ \A d \in Docs : sinceProcessing[d] <= sinceUpdate[d]
    /\ BagCardinality(tasks) <= MaxTasks
    /\ BagCardinality(reprocessing) <= MaxReprocess
====
